---- MODULE Spec2Model ----
(***************************************************************************)
(* Model of discord-ext-slash: the interaction dispatch pipeline           *)
(* (SlashBot.handle_slash_command, SlashBot.do_invoke, Command.invoke,     *)
(* Command.can_run, Command.invoke_parents), the response channel          *)
(* (BaseContext.respond) and the registration synchronizer                 *)
(* (SlashBot.register_commands, sync_cmds, process_command).               *)
(*                                                                         *)
(* Python None is the string "None", and 0 (NoneId) where the value is    *)
(* otherwise an integer id; a key missing from a dict is a key missing    *)
(* from the DOMAIN of the function that models the dict.                  *)
(***************************************************************************)
EXTENDS Integers, Sequences, FiniteSets, TLC

VARIABLES
    \* ---- declarations and registry (SlashBot.slash, Command attributes)
    slash,          \* set of declared top-level command objects
    decl,           \* object -> [name, description, options, default_permission]
    cmd_guild_id,   \* object -> Command.guild_id
    cmd_id,         \* object -> Command.id
    cog,            \* group level -> Command.cog of the group at that level
    bot_checks,     \* number of checks in SlashBot._checks
    \* ---- one inbound interaction (handle_slash_command / do_invoke)
    pc,             \* position of the interaction handler
    ctx,            \* the Context built for the interaction
    chain,          \* can_run: what is left of the list `parents` being iterated
    hooks,          \* invoke_parents: what is left of the list `parents`
    trace,          \* user coroutines awaited so far, in order
    last,           \* the latest awaited user coroutine and what it returned or raised
    exc,            \* exception in flight inside do_invoke's try block
    dispatched,     \* events handed to SlashBot.dispatch, in order
    escaped,        \* exception raised out of the interaction handler
    \* ---- response channel (BaseContext.respond)
    webhook,        \* BaseContext.webhook
    requests,       \* methods of the HTTP requests issued by respond(), in order
    payload,        \* what the latest of those requests carried
    raised,         \* what the last respond() call raised to its caller
    call,           \* the respond() call in progress, with its arguments
    \* ---- registration synchronizer (register_commands)
    rpc,            \* position of register_commands
    debug_guild,    \* SlashBot.debug_guild
    bot_guilds,     \* ids of SlashBot.guilds
    remote,         \* scope -> set of remote command records (the API's state)
    next_id,        \* next id the API assigns to a created command
    guilds,         \* register_commands: local dict `guilds`
    pending,        \* scopes of `guilds` not yet fetched and diffed
    state,          \* register_commands: local dict `state`
    tasks,          \* created process_command tasks not yet finished
    writes,         \* write requests issued by process_command in this run
    runs,           \* the register_commands calls so far, with their outcome
    ready,          \* position of the on_ready listener
    \* ---- permission overrides (Command.permissions, register_permissions)
    permissions,    \* object -> Command.permissions: scope -> (id, type) -> bool
    nperm,          \* number of add_perm calls made
    ppc,            \* position of register_permissions
    perm_filter,    \* register_permissions: the argument guild_id
    perm_guilds,    \* _register_permissions: local dict `guilds`
    perm_pending,   \* guilds of `guilds` whose PUT has not been issued yet
    puts,           \* PUT requests issued by _register_permissions, in order
    closing,        \* register_permissions has scheduled self.close()
    \* ---- component callbacks (SlashBot.comp_callbacks)
    comp_callbacks, \* set of registered component callbacks
    reg_order,      \* registrations of component callbacks so far, in order
    timers,         \* wait_and_deregister tasks that have not finished
    cpc,            \* position of handle_component_interaction
    iter,           \* the set iterator of the for loop: size seen, elements left
    tested,         \* callbacks whose matcher has been awaited, in order
    command,        \* ctx.command of the component context
    cescaped,       \* exception raised out of handle_component_interaction
    \* ---- resolution of one option value (Context._kwargs_from_options)
    rin,            \* the inputs: policy flags, option type, caches, payload
    rpos,           \* position in the resolution of the option
    value,          \* the value of the option so far
    rlog,           \* cache lookups, fetches and payload uses so far, in order
    \* ---- the gateway listener (SlashBot.on_interaction_create)
    gateway,        \* version and type of the event received, and its route
    \* ---- one Option declaration (Option.__init__)
    opt_args,       \* the arguments of the constructor
    option,         \* the Option constructed: type, min_value, max_value
    \* ---- the ready listener (SlashBot.__init__.on_ready)
    listening,      \* on_ready is among the bot's listeners of 'ready'
    ready_events,   \* number of 'ready' events dispatched so far
    \* ---- construction of one Context (handle_slash_command, Context.__init__)
    event,          \* the payload of the interaction
    built           \* the command located, ctx.command and ctx.options, or
                    \* what was raised

invokeVars == <<pc, ctx, chain, hooks, trace, last, exc, dispatched, escaped>>
respondVars == <<webhook, requests, payload, raised, call>>
declVars == <<slash, decl, cmd_guild_id, cmd_id, cog, bot_checks>>
syncVars == <<rpc, debug_guild, bot_guilds, remote, next_id, guilds, pending,
              state, tasks, writes, runs, ready>>
permVars == <<permissions, nperm, ppc, perm_filter, perm_guilds, perm_pending,
              puts, closing>>
compVars == <<comp_callbacks, reg_order, timers, cpc, iter, tested, command,
              cescaped>>
resolveVars == <<rin, rpos, value, rlog>>
gatewayVars == <<gateway>>
optionVars == <<opt_args, option>>
readyVars == <<listening, ready_events>>
contextVars == <<event, built>>
vars == <<slash, decl, cmd_guild_id, cmd_id, cog, bot_checks,
          pc, ctx, chain, hooks, trace, last, exc, dispatched, escaped,
          webhook, requests, payload, raised, call,
          rpc, debug_guild, bot_guilds, remote, next_id, guilds, pending,
          state, tasks, writes, runs, ready,
          permissions, nperm, ppc, perm_filter, perm_guilds, perm_pending,
          puts, closing,
          comp_callbacks, reg_order, timers, cpc, iter, tested, command,
          cescaped,
          rin, rpos, value, rlog, gateway, opt_args, option,
          listening, ready_events, event, built>>

None == "None"
\* None where an integer id is expected: the code itself identifies the two
\* (`int(... or 0) or None`)
NoneId == 0
\* None where a record is expected (no context, nothing awaited, no request)
NoRecord == [kind |-> "none"]

\* ------------------------------------------------------------------------
\* Bounds
\* ------------------------------------------------------------------------
MaxDepth == 2        \* deepest nesting of groups above a leaf command
MaxBotChecks == 2    \* most checks registered on the bot
MaxResponds == 3     \* most respond() calls made on one context

\* ------------------------------------------------------------------------
\* Sequence helpers
\* ------------------------------------------------------------------------
RECURSIVE Reverse(_)
Reverse(s) == IF s = <<>> THEN <<>> ELSE Reverse(Tail(s)) \o <<Head(s)>>

Range(s) == {s[i] : i \in 1..Len(s)}

\* ------------------------------------------------------------------------
\* Declarations: the command tree, cogs, bot-level checks
\* ------------------------------------------------------------------------
Names == {"ping", "old"}
GuildIds == {1}
Scopes == {NoneId} \cup GuildIds
\* a declared top-level command object: its name and the guild_id it was
\* declared with (Command.__hash__ hashes exactly this pair)
Objs == Names \X Scopes

CogIds == {"CogA", "CogB"}
\* hasattr(parent.cog, 'cog_check'): CogA defines cog_check, CogB does not
HasCogCheck(c) == c = "CogA"

\* values a check or a hook coroutine can return, and exceptions user code
\* can raise ("ValueError" stands for any Exception that is neither a
\* CommandError nor a CancelledError)
CheckReturns == {"False", "None", "True", "Zero"}
HookReturns == {"None", "False"}
UserRaises == {"CommandError", "CancelledError", "ValueError"}

IsCommandError(e) == e \in {"CommandError", "CheckFailure", "CommandNotFound"}

\* ------------------------------------------------------------------------
\* Command.can_run / Command.invoke_parents: the lists that are iterated
\* ------------------------------------------------------------------------
\* `parent = self.parent; while parent is not None: ...; parent = parent.parent`
\* for a leaf nested under d groups; group 1 is the outermost, group d the
\* immediate parent, so the walk visits d, d-1, ..., 1.
RECURSIVE ParentWalk(_)
ParentWalk(d) == IF d = 0 THEN <<>> ELSE <<d>> \o ParentWalk(d - 1)

\* the list `cogs` filled during the walk: a cog_check is appended once
RECURSIVE CogChecks(_, _, _)
CogChecks(walk, cogf, cogs) ==
    IF walk = <<>> THEN cogs
    ELSE LET c == cogf[Head(walk)]
             e == [kind |-> "cog", who |-> c]
         IN IF c # None /\ HasCogCheck(c) /\ e \notin Range(cogs)
            THEN CogChecks(Tail(walk), cogf, Append(cogs, e))
            ELSE CogChecks(Tail(walk), cogf, cogs)

ParentChecks(d) == [i \in 1..d |-> [kind |-> "group", who |-> ParentWalk(d)[i]]]
BotChecks(n) == [i \in 1..n |-> [kind |-> "bot", who |-> i]]

\* a can_run that forgets `parents.reverse()`
CanRunChainUnreversed(d, cogf, nbot) ==
    (ParentChecks(d) \o CogChecks(ParentWalk(d), cogf, <<>>) \o BotChecks(nbot))
        \o <<[kind |-> "leaf", who |-> d + 1]>>

\* the list `parents` of can_run when the for loop starts
CanRunChain(d, cogf, nbot) ==
    Reverse(ParentChecks(d) \o CogChecks(ParentWalk(d), cogf, <<>>)
            \o BotChecks(nbot))
        \o <<[kind |-> "leaf", who |-> d + 1]>>

\* an invoke_parents that forgets `parents.reverse()`
ParentHooksUnreversed(d) == [i \in 1..d |-> [kind |-> "hook", who |-> ParentWalk(d)[i]]]

\* the list `parents` of invoke_parents when the for loop starts
ParentHooks(d) ==
    Reverse([i \in 1..d |-> [kind |-> "hook", who |-> ParentWalk(d)[i]]])

\* a can_run that tests `== False` (0 == False in Python)
CheckAbortsEq(r) == r \in {"False", "Zero"}

\* `if await check(ctx) is False`
CheckAborts(r) == r = "False"

\* the arguments of logger.debug in Command.invoke are evaluated eagerly:
\* ctx.author.id, ctx.guild or ctx.guild.id, ctx.channel.id
LogArgsRaise(c) == c.author = None \/ c.guild = None \/ c.channel = None

\* which clause of do_invoke's try statement handles exception e
\* (None: invoke completed, the else clause runs)
ExceptClauseNoCancel(e) ==
    IF e = None THEN "else"
    ELSE IF IsCommandError(e) THEN "CommandError"
    ELSE "Exception"

ExceptClauseNoCommandError(e) ==
    IF e = None THEN "else"
    ELSE IF e = "CancelledError" THEN "CancelledError"
    ELSE "Exception"

ExceptClause(e) ==
    IF e = None THEN "else"
    ELSE IF IsCommandError(e) THEN "CommandError"
    ELSE IF e = "CancelledError" THEN "CancelledError"
    ELSE "Exception"

\* ------------------------------------------------------------------------
\* SlashBot.handle_slash_command: locating the command
\* ------------------------------------------------------------------------
EventIds == {1, 2, 9}
EventNames == Names \cup {"gone"}
\* the payload of an interaction: `keyed` tells whether it has the key
\* 'guild_id', which is optional and left out for an interaction in a DM
Events ==
    {e \in [id : EventIds, name : EventNames, guild_id : Scopes,
            depth : 0..MaxDepth, keyed : BOOLEAN] :
        ~e.keyed => e.guild_id = NoneId}

\* line 209: `event['guild_id']` is evaluated when the search by id has
\* found nothing, and raises KeyError when the payload has no such key
LocateRaises(ev) == {o \in slash : cmd_id[o] = ev.id} = {} /\ ~ev.keyed

\* the three discord.utils.get searches; each returns some matching element
\* of the set self.slash, or nothing
Located(ev) ==
    LET byId == {o \in slash : cmd_id[o] = ev.id}
        byNameGuild == {o \in slash : decl[o].name = ev.name
                                      /\ cmd_guild_id[o] = ev.guild_id}
        byName == {o \in slash : decl[o].name = ev.name}
    IN IF byId # {} THEN byId
       ELSE IF byNameGuild # {} THEN byNameGuild
       ELSE byName

\* BaseContext.__init__ / Context.__init__: the context of the leaf reached
\* by descending ev.depth levels below the located command
NewContext(o, ev) ==
    [top |-> o, depth |-> ev.depth,
     guild |-> IF ev.guild_id = NoneId THEN None ELSE "Guild",
     channel |-> "Channel", author |-> "Author", kind |-> "slash"]

InvokeIdle ==
    /\ pc = "idle" /\ ctx = NoRecord /\ chain = <<>> /\ hooks = <<>>
    /\ trace = <<>> /\ last = NoRecord /\ exc = None /\ dispatched = <<>>
    /\ escaped = None

HandleSlashCommand ==
    /\ pc = "idle"
    /\ \E ev \in Events :
        IF LocateRaises(ev)
        THEN /\ escaped' = "KeyError"
             /\ pc' = "done"
             /\ UNCHANGED <<ctx, chain, hooks, dispatched>>
        ELSE IF Located(ev) = {}
        THEN \* raise commands.CommandNotFound(...)
             /\ escaped' = "CommandNotFound"
             /\ pc' = "done"
             /\ UNCHANGED <<ctx, chain, hooks, dispatched>>
        ELSE \E o \in Located(ev) :
             /\ ctx' = NewContext(o, ev)
             \* do_invoke: self.dispatch(f'before_{event_name}_invoke', ctx)
             /\ dispatched' = Append(dispatched,
                    [event |-> "before_slash_command_invoke", error |-> None,
                     original |-> None])
             \* Command.invoke -> can_run builds `parents`
             /\ chain' = CanRunChain(ev.depth, cog, bot_checks)
             /\ hooks' = ParentHooks(ev.depth)
             /\ pc' = "can_run"
             /\ UNCHANGED escaped
    /\ UNCHANGED <<trace, last, exc>>
    /\ UNCHANGED <<declVars, respondVars, syncVars, permVars, compVars, resolveVars, gatewayVars, optionVars, readyVars, contextVars>>

\* one iteration of `for check in parents: if await check(ctx) is False`
RunCheck ==
    /\ pc = "can_run" /\ chain # <<>>
    /\ \E r \in CheckReturns \cup UserRaises :
        /\ trace' = Append(trace, Head(chain))
        /\ last' = [kind |-> Head(chain).kind, who |-> Head(chain).who,
                    result |-> r]
        /\ IF r \in UserRaises
           THEN /\ exc' = r /\ pc' = "except" /\ chain' = Tail(chain)
           ELSE IF CheckAborts(r)
           THEN /\ pc' = "can_run_false" /\ chain' = Tail(chain)
                /\ UNCHANGED exc
           ELSE /\ chain' = Tail(chain)
                /\ pc' = IF Tail(chain) = <<>> THEN "can_run_true" ELSE "can_run"
                /\ UNCHANGED exc
    /\ UNCHANGED <<ctx, hooks, dispatched, escaped>>
    /\ UNCHANGED <<declVars, respondVars, syncVars, permVars, compVars, resolveVars, gatewayVars, optionVars, readyVars, contextVars>>

\* Command.invoke from the return of can_run to the call of invoke_parents
Invoke ==
    /\ pc \in {"can_run_true", "can_run_false"}
    /\ IF pc = "can_run_false"
       THEN /\ exc' = "CheckFailure" /\ pc' = "except"
       ELSE IF LogArgsRaise(ctx)
       THEN /\ exc' = "AttributeError" /\ pc' = "except"
       ELSE /\ pc' = IF hooks = <<>> THEN "leaf" ELSE "invoke_parents"
            /\ UNCHANGED exc
    /\ UNCHANGED <<ctx, chain, hooks, trace, last, dispatched, escaped>>
    /\ UNCHANGED <<declVars, respondVars, syncVars, permVars, compVars, resolveVars, gatewayVars, optionVars, readyVars, contextVars>>

\* one iteration of `for coro in parents: await coro(ctx)`
RunHook ==
    /\ pc = "invoke_parents" /\ hooks # <<>>
    /\ \E r \in HookReturns \cup UserRaises :
        /\ trace' = Append(trace, Head(hooks))
        /\ last' = [kind |-> "hook", who |-> Head(hooks).who, result |-> r]
        /\ hooks' = Tail(hooks)
        /\ IF r \in UserRaises
           THEN exc' = r /\ pc' = "except"
           ELSE /\ pc' = IF Tail(hooks) = <<>> THEN "leaf" ELSE "invoke_parents"
                /\ UNCHANGED exc
    /\ UNCHANGED <<ctx, chain, dispatched, escaped>>
    /\ UNCHANGED <<declVars, respondVars, syncVars, permVars, compVars, resolveVars, gatewayVars, optionVars, readyVars, contextVars>>

\* `await self.coro(**ctx.options)`
RunLeaf ==
    /\ pc = "leaf"
    /\ \E r \in {"None"} \cup UserRaises :
        /\ trace' = Append(trace, [kind |-> "callback", who |-> ctx.depth + 1])
        /\ last' = [kind |-> "callback", who |-> ctx.depth + 1, result |-> r]
        /\ IF r \in UserRaises
           THEN exc' = r /\ pc' = "except"
           ELSE pc' = "returned" /\ UNCHANGED exc
    /\ UNCHANGED <<ctx, chain, hooks, dispatched, escaped>>
    /\ UNCHANGED <<declVars, respondVars, syncVars, permVars, compVars, resolveVars, gatewayVars, optionVars, readyVars, contextVars>>

\* do_invoke: the except / else clauses around `await ctx.command.invoke(ctx)`
DoInvokeHandle ==
    /\ pc \in {"except", "returned"}
    /\ LET clause == ExceptClause(exc) IN
        /\ dispatched' =
            CASE clause = "CommandError" ->
                    Append(dispatched, [event |-> "command_error",
                                        error |-> exc, original |-> None])
              [] clause = "CancelledError" -> dispatched
              [] clause = "Exception" ->
                    Append(dispatched, [event |-> "command_error",
                                        error |-> "CommandInvokeError",
                                        original |-> exc])
              [] clause = "else" ->
                    Append(dispatched, [event |-> "after_slash_command_invoke",
                                        error |-> None, original |-> None])
    /\ pc' = "done"
    /\ UNCHANGED <<ctx, chain, hooks, trace, last, exc, escaped>>
    /\ UNCHANGED <<declVars, respondVars, syncVars, permVars, compVars, resolveVars, gatewayVars, optionVars, readyVars, contextVars>>

NextInvoke ==
    \/ HandleSlashCommand
    \/ RunCheck
    \/ Invoke
    \/ RunHook
    \/ RunLeaf
    \/ DoInvokeHandle

\* ------------------------------------------------------------------------
\* BaseContext.respond
\* ------------------------------------------------------------------------
\* InteractionCallbackType
CHANNEL_MESSAGE_WITH_SOURCE == 4
DEFERRED_CHANNEL_MESSAGE_WITH_SOURCE == 5
DEFERRED_UPDATE_MESSAGE == 6
UPDATE_MESSAGE == 7

\* arguments of one respond() call; a BOOLEAN says whether the argument was
\* given (truthy); rtype None is the default
RespondArgs ==
    [content : {"", "hi"}, embed : BOOLEAN, embeds : BOOLEAN,
     components : BOOLEAN, file : BOOLEAN, files : BOOLEAN,
     ephemeral : BOOLEAN, deferred : BOOLEAN,
     rtype : {NoneId, CHANNEL_MESSAGE_WITH_SOURCE,
              DEFERRED_CHANNEL_MESSAGE_WITH_SOURCE, UPDATE_MESSAGE}]

\* Context._rtype_defaults / ComponentContext._rtype_defaults
RtypeDefaults(kind, rtype, deferred) ==
    IF kind = "slash"
    THEN IF deferred THEN DEFERRED_CHANNEL_MESSAGE_WITH_SOURCE
         ELSE IF rtype # NoneId THEN rtype
         ELSE CHANNEL_MESSAGE_WITH_SOURCE
    ELSE IF deferred THEN DEFERRED_UPDATE_MESSAGE
         ELSE IF rtype # NoneId THEN rtype
         ELSE UPDATE_MESSAGE

\* BaseContext._message_data: what it raises, else the keys of `data` and
\* whether a multipart form (a list) is returned instead of the dict
MessageDataRaises(a) == (a.embed /\ a.embeds) \/ (a.file /\ a.files)

MessageData(a) ==
    [keys |-> (IF a.content # "" THEN {"content"} ELSE {})
              \cup (IF a.embed \/ a.embeds THEN {"embeds"} ELSE {})
              \cup (IF a.components THEN {"components"} ELSE {})
              \cup (IF a.file \/ a.files THEN {"attachments"} ELSE {}),
     form |-> a.file \/ a.files]

\* _Route(..., channel_id=self.channel.id, guild_id=self.guild or self.guild.id)
RouteArgsRaise(c) == c.channel = None \/ c.guild = None

\* respond(), in the branch `self.webhook is None`: the callback payload
\* {'type': rtype, 'data': ...} or the ValueError it raises.  The test
\* `content or embeds or files` reads respond's own arguments, after
\* `if isinstance(file, discord.File): files = [file]`.
HasMessage(a) == a.content # "" \/ a.embeds \/ a.file \/ a.files

CallbackRaises(a, rtype) ==
    ~HasMessage(a) /\ rtype = CHANNEL_MESSAGE_WITH_SOURCE

CallbackData(a, rtype) ==
    [type |-> rtype,
     keys |-> (IF HasMessage(a) THEN MessageData(a).keys ELSE {})
              \cup (IF a.ephemeral THEN {"flags"} ELSE {}),
     form |-> MessageData(a).form]

\* a respond() that sets self.webhook only once the POST has succeeded
RespondPostAfterAwait(a, ok) ==
    /\ webhook' = IF ok THEN "Webhook" ELSE None
    /\ requests' = Append(requests, "POST")
    /\ payload' = CallbackData(a, RtypeDefaults(ctx.kind, a.rtype, a.deferred))
    /\ raised' = IF ok THEN None ELSE "HTTPException"

\* respond(), lines 307-336 once the payload is built: self.webhook is set
\* before the request is awaited
RespondPost(a, ok) ==
    /\ webhook' = "Webhook"
    /\ requests' = Append(requests, "POST")
    /\ payload' = CallbackData(a, RtypeDefaults(ctx.kind, a.rtype, a.deferred))
    /\ raised' = IF ok THEN None ELSE "HTTPException"

\* a respond() that sends a new message every time
RespondEditAsPost(a, ok) ==
    /\ requests' = Append(requests, "POST")
    /\ payload' = [type |-> NoneId, keys |-> MessageData(a).keys,
                   form |-> MessageData(a).form]
    /\ raised' = IF ok THEN None ELSE "HTTPException"
    /\ UNCHANGED webhook

\* respond(), lines 299-305 and 331-336: edit of the original message
RespondEdit(a, ok) ==
    /\ requests' = Append(requests, "PATCH")
    /\ payload' = [type |-> NoneId, keys |-> MessageData(a).keys,
                   form |-> MessageData(a).form]
    /\ raised' = IF ok THEN None ELSE "HTTPException"
    /\ UNCHANGED webhook

RespondFails(e) ==
    /\ raised' = e
    /\ UNCHANGED <<webhook, requests, payload>>

\* the callback calls ctx.respond(...) with arguments a
RespondCall ==
    /\ Len(requests) < MaxResponds
    /\ call = NoRecord
    /\ \E a \in RespondArgs : call' = [op |-> "respond", args |-> a]
    /\ UNCHANGED <<webhook, requests, payload, raised>>
    /\ UNCHANGED <<declVars, invokeVars, syncVars, permVars, compVars, resolveVars, gatewayVars, optionVars, readyVars, contextVars>>

\* the body of respond(), up to its return or raise; ok is whether the HTTP
\* request succeeds
Respond ==
    /\ call # NoRecord
    /\ call' = NoRecord
    /\ \E ok \in BOOLEAN :
        LET a == call.args
            rtype == RtypeDefaults(ctx.kind, a.rtype, a.deferred) IN
        /\ IF MessageDataRaises(a) THEN RespondFails("TypeError")
           ELSE IF webhook # None
           THEN IF RouteArgsRaise(ctx) THEN RespondFails("AttributeError")
                ELSE RespondEdit(a, ok)
           ELSE IF CallbackRaises(a, rtype) THEN RespondFails("ValueError")
                ELSE IF RouteArgsRaise(ctx) THEN RespondFails("AttributeError")
                ELSE RespondPost(a, ok)
    /\ UNCHANGED <<declVars, invokeVars, syncVars, permVars, compVars, resolveVars, gatewayVars, optionVars, readyVars, contextVars>>

NextRespond == RespondCall \/ Respond

\* a delete() that forgets the response: the next respond() would POST
DeleteResets == None

\* delete() leaves self.webhook alone (lines 338-344 do not assign it)
DeleteKeeps == webhook

\* BaseContext.delete: DELETE of /webhooks/{app}/{token}/messages/@original
Delete ==
    /\ Len(requests) < MaxResponds
    /\ call = NoRecord /\ UNCHANGED call
    /\ IF RouteArgsRaise(ctx)
       THEN /\ raised' = "AttributeError"
            /\ UNCHANGED <<webhook, requests, payload>>
       ELSE \E ok \in BOOLEAN :
            /\ requests' = Append(requests, "DELETE")
            /\ payload' = NoRecord
            /\ raised' = IF ok THEN None ELSE "HTTPException"
            /\ webhook' = DeleteKeeps
    /\ UNCHANGED <<declVars, invokeVars, syncVars, permVars, compVars, resolveVars, gatewayVars, optionVars, readyVars, contextVars>>

\* BaseContext.send: `return await self.channel.send(*args, **kwargs)`, the
\* channel's own POST /channels/{id}/messages, made with the bot's
\* credentials
Send ==
    /\ Len(requests) < MaxResponds
    /\ call = NoRecord /\ UNCHANGED call
    /\ IF ctx.channel = None
       THEN /\ raised' = "AttributeError"
            /\ UNCHANGED <<webhook, requests, payload>>
       ELSE \E ok \in BOOLEAN :
            /\ requests' = Append(requests, "POST /channels")
            /\ payload' = NoRecord
            /\ raised' = IF ok THEN None ELSE "HTTPException"
            /\ UNCHANGED webhook
    /\ UNCHANGED <<declVars, invokeVars, syncVars, permVars, compVars, resolveVars, gatewayVars, optionVars, readyVars, contextVars>>

\* every call a callback can make on its context
NextChannel == RespondCall \/ Respond \/ Delete \/ Send

\* ------------------------------------------------------------------------
\* Registration synchronizer: register_commands, sync_cmds, process_command
\* ------------------------------------------------------------------------
MaxDeclared == 2     \* most commands declared on the bot
MaxRemote == 2       \* most commands registered on the API before the run
MaxRuns == 2         \* most calls of register_commands

CmdFields == {"name", "description", "options", "default_permission"}

\* Command.to_dict of a top-level command: 'options' only if there are any,
\* 'default_permission' because parent is None
ToDict(d) ==
    IF d.options = <<>>
    THEN [name |-> d.name, description |-> d.description,
          default_permission |-> d.default_permission]
    ELSE [name |-> d.name, description |-> d.description,
          options |-> d.options, default_permission |-> d.default_permission]

\* done[name].get(k, ...) == cmd_dict.get(k, ...)
FieldEq(a, b, k) ==
    IF k \in DOMAIN a /\ k \in DOMAIN b THEN a[k] = b[k]
    ELSE k \notin DOMAIN a /\ k \notin DOMAIN b

\* a comparison in which a field missing on either side matches anything
UpToDateLenient(done, cmd_dict) ==
    \A k \in CmdFields :
        (k \in DOMAIN done /\ k \in DOMAIN cmd_dict) => done[k] = cmd_dict[k]

\* sync_cmds lines 298-300
UpToDate(done, cmd_dict) == \A k \in CmdFields : FieldEq(done, cmd_dict, k)

\* `cmd_dict.pop('name')`
WithoutName(cmd_dict) == [k \in DOMAIN cmd_dict \ {"name"} |-> cmd_dict[k]]

\* `done = {data['name']: data for data in done}`
DoneNames(done) == {r.name : r \in done}
DoneByName(done, n) == CHOOSE r \in done : r.name = n

\* a diff that deletes every remote command
ToDeleteAll(todo, done) == DoneNames(done)

\* sync_cmds lines 288, 290, 292
ToDelete(todo, done) == DoneNames(done) \ DOMAIN todo
ToUpdate(todo, done) == DoneNames(done) \cap DOMAIN todo

\* a diff that creates every declared command
ToCreateAll(todo, done) == DOMAIN todo

ToCreate(todo, done) == DOMAIN todo \ DoneNames(done)

\* the entries sync_cmds adds to `state`, keyed <<method, guild_id, name>>
SyncEntries(todo, done, guild_id) ==
    LET posts == {<<"POST", guild_id, n>> : n \in ToCreate(todo, done)}
        patches == {<<"PATCH", guild_id, n>> :
                    n \in {m \in ToUpdate(todo, done) :
                           ~UpToDate(DoneByName(done, m), ToDict(decl[todo[m]]))}}
        deletes == {<<"DELETE", guild_id, n>> : n \in ToDelete(todo, done)}
    IN [k \in posts \cup patches \cup deletes |->
        CASE k[1] = "POST" ->
                [json |-> ToDict(decl[todo[k[3]]]), id |-> NoneId,
                 cmd |-> <<todo[k[3]]>>]
          [] k[1] = "PATCH" ->
                [json |-> WithoutName(ToDict(decl[todo[k[3]]])),
                 id |-> DoneByName(done, k[3]).id, cmd |-> <<todo[k[3]]>>]
          [] k[1] = "DELETE" ->
                [json |-> <<>>, id |-> DoneByName(done, k[3]).id, cmd |-> <<>>]]

\* the commands whose id sync_cmds sets from an up-to-date remote record
Adopted(todo, done) ==
    {n \in ToUpdate(todo, done) :
        UpToDate(DoneByName(done, n), ToDict(decl[todo[n]]))}

\* dict update: entries of g override those of f
Update(f, g) == [k \in DOMAIN f \cup DOMAIN g |-> IF k \in DOMAIN g THEN g[k] ELSE f[k]]

\* register_commands lines 245-250.  `for cmd in self.slash` visits the set
\* in some order and `guilds[...][cmd.name] = cmd` keeps the last command
\* visited for each scope and name.
\* a partition by the declared guild_id alone
DeclaredGuild(o) == cmd_guild_id[o]

EffectiveGuild(o) ==
    IF cmd_guild_id[o] # NoneId THEN cmd_guild_id[o] ELSE debug_guild

\* the entry of `runs` for the call in progress, closed with its outcome
EndRun(outcome, ws) ==
    [runs EXCEPT ![Len(runs)] = [@ EXCEPT !.outcome = outcome, !.writes = ws]]

\* register_commands(guild_id) up to the first request, lines 242-256.  A
\* set that has not changed is iterated in the same order by every call, so
\* a name declared twice for one scope is won by the same command as in the
\* call before.
RegisterCommandsCall(caller, gid) ==
    LET newGuild == [o \in slash |-> EffectiveGuild(o)]
        kept == {o \in slash : gid = NoneId \/ newGuild[o] = gid}
        scopes == {g \in bot_guilds : gid \in {g, NoneId}}
                    \cup {newGuild[o] : o \in kept}
    IN /\ ready' = IF caller = "on_ready" THEN "running" ELSE ready
       /\ runs' = Append(runs, [caller |-> caller, guild_id |-> gid,
                                ids |-> cmd_id, writes |-> {},
                                outcome |-> "running"])
       /\ cmd_guild_id' = newGuild
       /\ \E g \in [scopes -> SUBSET kept] :
            /\ \A sc \in scopes :
                /\ \A o \in g[sc] : newGuild[o] = sc
                /\ \A o \in kept : newGuild[o] = sc =>
                        \E q \in g[sc] : decl[q].name = decl[o].name
                /\ \A o, q \in g[sc] : decl[o].name = decl[q].name => o = q
                /\ \A o \in g[sc] :
                        (sc \in DOMAIN guilds /\ decl[o].name \in DOMAIN guilds[sc])
                            => guilds[sc][decl[o].name] = o
            /\ guilds' = [sc \in scopes |->
                            [n \in {decl[o].name : o \in g[sc]} |->
                                CHOOSE o \in g[sc] : decl[o].name = n]]
       /\ pending' = scopes
       /\ state' = <<>>
       /\ writes' = {}
       /\ rpc' = "sync"
       /\ UNCHANGED <<slash, decl, cmd_id, cog, bot_checks, debug_guild,
                      bot_guilds, remote, next_id, tasks>>
       /\ UNCHANGED <<invokeVars, respondVars, permVars, compVars, resolveVars, gatewayVars, optionVars, readyVars, contextVars>>

\* the first call: by on_ready (the initial pass, no guild filter) or by the
\* application (any guild filter)
RegisterCommands ==
    /\ rpc = "idle"
    /\ \E caller \in {"on_ready", "user"}, gid \in Scopes :
        /\ caller = "on_ready" => gid = NoneId
        /\ RegisterCommandsCall(caller, gid)

\* a later, explicit call by the application
RegisterAgain ==
    /\ rpc \in {"done", "raised"}
    /\ Len(runs) < MaxRuns
    /\ ready \notin {"running", "closing"}
    /\ \E gid \in Scopes : RegisterCommandsCall("user", gid)

\* one `await self.http.request(route)` for a scope's command list followed
\* by `await self.sync_cmds(...)`; the global scope is fetched first
FetchAndSync ==
    /\ rpc = "sync" /\ pending # {}
    /\ \E sc \in pending :
        /\ NoneId \in pending => sc = NoneId
        /\ \/ /\ state' = Update(state, SyncEntries(guilds[sc], remote[sc], sc))
              /\ cmd_id' = [o \in slash |->
                    IF \E n \in Adopted(guilds[sc], remote[sc]) : guilds[sc][n] = o
                    THEN DoneByName(remote[sc], decl[o].name).id
                    ELSE cmd_id[o]]
              /\ pending' = pending \ {sc}
              /\ UNCHANGED rpc
              /\ UNCHANGED runs
           \/ \* the GET raises discord.HTTPException out of register_commands
              /\ rpc' = "raised"
              /\ runs' = EndRun("raised", writes)
              /\ UNCHANGED <<state, cmd_id, pending>>
    /\ UNCHANGED <<slash, decl, cmd_guild_id, cog, bot_checks, debug_guild,
                   bot_guilds, remote, next_id, guilds, tasks, writes, ready>>
    /\ UNCHANGED <<invokeVars, respondVars, permVars, compVars, resolveVars, gatewayVars, optionVars, readyVars, contextVars>>

\* a loop over the scopes that is left before every scope was fetched
FetchedAny(p) == TRUE

\* lines 257-265: the fetches are over when the global scope and every key
\* of `guilds` have been fetched and diffed
Fetched(p) == p = {}

\* register_commands lines 267-280: one process_command task per entry
CreateTasks ==
    /\ rpc = "sync" /\ Fetched(pending)
    /\ tasks' = DOMAIN state
    /\ rpc' = "gather"
    /\ UNCHANGED <<declVars, debug_guild, bot_guilds, remote, next_id, guilds,
                   pending, state, writes, runs, ready>>
    /\ UNCHANGED <<invokeVars, respondVars, permVars, compVars, resolveVars, gatewayVars, optionVars, readyVars, contextVars>>

\* what the API does with a successful write
RemoteAfter(k, kw) ==
    LET sc == k[2] IN
    [remote EXCEPT ![sc] =
        CASE k[1] = "POST" -> @ \cup {Update(kw.json, [id |-> next_id])}
          [] k[1] = "PATCH" -> {IF r.id = kw.id THEN Update(r, kw.json) ELSE r : r \in @}
          [] k[1] = "DELETE" -> {r \in @ : r.id # kw.id}]

\* the id in the API's answer to a write of a command
AnswerId(k, kw) == IF k[1] = "POST" THEN next_id ELSE kw.id

\* the record of one write request and its outcome
Write(k, kw, ok) ==
    [method |-> k[1], guild_id |-> k[2], name |-> k[3], id |-> kw.id,
     json |-> kw.json, ok |-> ok]

\* process_command lines 316 and 322-323: the request succeeds
ProcessCommandOk(k, kw) ==
    /\ writes' = writes \cup {Write(k, kw, TRUE)}
    /\ remote' = RemoteAfter(k, kw)
    /\ next_id' = IF k[1] = "POST" THEN next_id + 1 ELSE next_id
    /\ cmd_id' = IF kw.cmd # <<>>
                 THEN [cmd_id EXCEPT ![kw.cmd[1]] = AnswerId(k, kw)]
                 ELSE cmd_id
    /\ UNCHANGED <<rpc, runs>>

\* a process_command without the except clause: the HTTPException reaches
\* gather and, through it, the caller of register_commands
ProcessCommandFailsRaising(k, kw) ==
    /\ writes' = writes \cup {Write(k, kw, FALSE)}
    /\ rpc' = "raised"
    /\ runs' = EndRun("raised", writes \cup {Write(k, kw, FALSE)})
    /\ UNCHANGED <<remote, next_id, cmd_id>>

\* process_command lines 317-319: `except discord.HTTPException:` logs and
\* returns; cmd.id is not assigned
ProcessCommandFails(k, kw) ==
    /\ writes' = writes \cup {Write(k, kw, FALSE)}
    /\ UNCHANGED <<remote, next_id, cmd_id, rpc, runs>>

\* process_command: one task runs from its request to its end
ProcessCommand ==
    /\ rpc = "gather"
    /\ \E k \in tasks :
        /\ tasks' = tasks \ {k}
        /\ \/ ProcessCommandOk(k, state[k])
           \/ ProcessCommandFails(k, state[k])
    /\ UNCHANGED <<slash, decl, cmd_guild_id, cog, bot_checks, debug_guild,
                   bot_guilds, guilds, pending, state, ready>>
    /\ UNCHANGED <<invokeVars, respondVars, permVars, compVars, resolveVars, gatewayVars, optionVars, readyVars, contextVars>>

\* a gather that returns while tasks are still running
GatheredAny(ts) == TRUE

\* line 281: `await asyncio.gather(*tasks)` is over when no task is left
\* running
Gathered(ts) == ts = {}

\* `await asyncio.gather(*tasks)` returns once every task has finished
Gather ==
    /\ rpc = "gather" /\ Gathered(tasks)
    /\ rpc' = "done"
    /\ runs' = EndRun("returned", writes)
    /\ UNCHANGED <<declVars, debug_guild, bot_guilds, remote, next_id, guilds,
                   pending, state, tasks, writes, ready>>
    /\ UNCHANGED <<invokeVars, respondVars, permVars, compVars, resolveVars, gatewayVars, optionVars, readyVars, contextVars>>

\* on_ready lines 85-91: what follows `await self.register_commands()`
OnReadyOutcome(r) == IF r = "raised" THEN "closing" ELSE "permissions"

\* on_ready once register_commands is over: dispatch('slash_permissions')
\* starts the permission pass; `except discord.HTTPException` schedules
\* close() and re-raises
OnReadyEnd ==
    /\ ready = "running" /\ rpc \in {"done", "raised"}
    /\ ready' = OnReadyOutcome(rpc)
    /\ UNCHANGED <<declVars, rpc, debug_guild, bot_guilds, remote, next_id,
                   guilds, pending, state, tasks, writes, runs>>
    /\ UNCHANGED <<invokeVars, respondVars, permVars, compVars, resolveVars, gatewayVars, optionVars, readyVars, contextVars>>

NextSync ==
    \/ RegisterCommands
    \/ FetchAndSync
    \/ CreateTasks
    \/ ProcessCommand
    \/ Gather
    \/ OnReadyEnd

NextResync == NextSync \/ RegisterAgain

\* ------------------------------------------------------------------------
\* Permission overrides: Command.add_perm, Command.perms_dict,
\* SlashBot.register_permissions
\* ------------------------------------------------------------------------
MaxAddPerm == 3      \* most add_perm calls made before the permission pass

\* ApplicationCommandPermissionType
ROLE == 1
USER == 2

\* the default `...` of add_perm's guild_id
Ellipsis == -1

PermGuildIds == {1, 2}
PermScopes == {NoneId} \cup PermGuildIds

\* targets of add_perm: a role and a member of guild 2, a user without
\* guild, a bare discord.Object
Targets ==
    {[kind |-> "Role", id |-> 7, guild |-> 2],
     [kind |-> "Member", id |-> 7, guild |-> 2],
     [kind |-> "User", id |-> 7, guild |-> NoneId],
     [kind |-> "Object", id |-> 7, guild |-> NoneId]}

\* add_perm lines 247-254: the type, NoneId where ValueError is raised
AddPermType(target, type) ==
    IF type # NoneId THEN type
    ELSE IF target.kind = "Role" THEN ROLE
    ELSE IF target.kind \in {"Member", "User"} THEN USER
    ELSE NoneId

\* add_perm lines 255-260: the guild, Ellipsis where ValueError is raised
AddPermGuild(target, guild_id) ==
    IF guild_id # Ellipsis THEN guild_id
    ELSE IF target.kind \in {"Role", "Member"} THEN target.guild
    ELSE Ellipsis

\* dict.get(k, {})
Get(f, k) == IF k \in DOMAIN f THEN f[k] ELSE <<>>

\* `self.permissions.setdefault(guild_id, {})[target.id, type] = perm`
SetPerm(P, o, gid, key, perm) ==
    [P EXCEPT ![o] = Update(@, gid :> Update(Get(@, gid), key :> perm))]

AddPerm ==
    /\ ppc = "idle" /\ nperm < MaxAddPerm
    /\ \E o \in slash, t \in Targets, perm \in BOOLEAN,
          g \in {Ellipsis} \cup PermScopes, ty \in {NoneId, ROLE, USER} :
        LET type == AddPermType(t, ty)
            gid == AddPermGuild(t, g)
        IN IF type = NoneId \/ gid = Ellipsis
           THEN UNCHANGED permissions       \* raise ValueError
           ELSE permissions' = SetPerm(permissions, o, gid, <<t.id, type>>, perm)
    /\ nperm' = nperm + 1
    /\ UNCHANGED <<ppc, perm_filter, perm_guilds, perm_pending, puts, closing>>
    /\ UNCHANGED <<declVars, invokeVars, respondVars, syncVars, compVars, resolveVars, gatewayVars, optionVars, readyVars, contextVars>>

\* perms_dict lines 197-202: the list built from `final`
PermsList(final) ==
    {[id |-> k[1], type |-> k[2], permission |-> final[k]] : k \in DOMAIN final}

\* a perms_dict in which the default-scope grants override the guild's
PermsDictDefaultWins(o, guild_id) ==
    [cmd |-> o, id |-> cmd_id[o],
     permissions |-> PermsList(Update(Get(permissions[o], guild_id),
                                      Get(permissions[o], NoneId)))]

\* Command.perms_dict(guild_id); `cmd` names the command whose perms_dict
\* this is (two commands without id give equal dicts in one list)
PermsDict(o, guild_id) ==
    [cmd |-> o, id |-> cmd_id[o],
     permissions |-> PermsList(Update(Get(permissions[o], NoneId),
                                      Get(permissions[o], guild_id)))]

\* _register_permissions lines 343-344
AllGuildIds == (bot_guilds \cup {cmd_guild_id[o] : o \in slash}) \ {NoneId}

\* line 351
DefaultGuildIds(o) ==
    IF cmd_guild_id[o] = NoneId THEN AllGuildIds ELSE {cmd_guild_id[o]}

\* a pass that also sends the defaults to guilds with specific grants
DefaultsGoToAlways(o, gid, filter) ==
    /\ PermsDict(o, NoneId).permissions # {}
    /\ gid \in DefaultGuildIds(o)
    /\ ~(filter \notin {gid, NoneId})

\* lines 347-360: the defaults of o are appended to the list of guild gid
DefaultsGoTo(o, gid, filter) ==
    /\ PermsDict(o, NoneId).permissions # {}
    /\ gid \in DefaultGuildIds(o)
    /\ ~(filter \notin {gid, NoneId} \/ gid \in DOMAIN permissions[o])

\* a pass that sends the specific grants whatever the guild filter
SpecificGoToUnfiltered(o, gid, filter) ==
    /\ gid \in DOMAIN permissions[o]
    /\ gid # NoneId

\* lines 361-366: perms_dict(gid) of o is appended to the list of guild gid
SpecificGoTo(o, gid, filter) ==
    /\ gid \in DOMAIN permissions[o]
    /\ gid # NoneId
    /\ ~(filter \notin {gid, NoneId})

\* the dict `guilds` when the loop over self.slash ends: guild -> entries
PermissionGuilds(filter) ==
    LET entries(gid) ==
            {PermsDict(o, NoneId) : o \in {q \in slash : DefaultsGoTo(q, gid, filter)}}
            \cup {PermsDict(o, gid) : o \in {q \in slash : SpecificGoTo(q, gid, filter)}}
        known == AllGuildIds \cup UNION {DOMAIN permissions[o] : o \in slash}
    IN [gid \in {g \in known : entries(g) # {}} |-> entries(gid)]

\* register_permissions(guild_id) up to the first request
RegisterPermissionsCall(filter) ==
    /\ perm_filter' = filter
    /\ perm_guilds' = PermissionGuilds(filter)
    /\ perm_pending' = DOMAIN PermissionGuilds(filter)
    /\ ppc' = "put"
    /\ UNCHANGED <<permissions, nperm, puts, closing>>
    /\ UNCHANGED <<declVars, invokeVars, respondVars, syncVars, compVars, resolveVars, gatewayVars, optionVars, readyVars, contextVars>>

\* a call by the application, with any guild filter
RegisterPermissions ==
    /\ ppc = "idle"
    /\ \E filter \in PermScopes : RegisterPermissionsCall(filter)

\* a register_permissions that logs the failure and returns
RegisterPermissionsSwallows ==
    /\ ppc' = "returned"
    /\ UNCHANGED closing

\* register_permissions lines 335-338: log, schedule close(), re-raise
RegisterPermissionsFails ==
    /\ ppc' = "raised"
    /\ closing' = TRUE

\* one iteration of `for guild_id, data in guilds.items()`: the PUT
PutPermissions ==
    /\ ppc = "put" /\ perm_pending # {}
    /\ \E gid \in perm_pending, ok \in BOOLEAN :
        /\ puts' = Append(puts, [guild_id |-> gid, json |-> perm_guilds[gid],
                                 ok |-> ok])
        /\ perm_pending' = perm_pending \ {gid}
        /\ IF ok THEN UNCHANGED <<ppc, closing>> ELSE RegisterPermissionsFails
    /\ UNCHANGED <<permissions, nperm, perm_filter, perm_guilds>>
    /\ UNCHANGED <<declVars, invokeVars, respondVars, syncVars, compVars, resolveVars, gatewayVars, optionVars, readyVars, contextVars>>

\* the loop is over: _register_permissions and register_permissions return
PermissionsReturn ==
    /\ ppc = "put" /\ perm_pending = {}
    /\ ppc' = "returned"
    /\ UNCHANGED <<permissions, nperm, perm_filter, perm_guilds, perm_pending,
                   puts, closing>>
    /\ UNCHANGED <<declVars, invokeVars, respondVars, syncVars, compVars, resolveVars, gatewayVars, optionVars, readyVars, contextVars>>

NextPerms ==
    \/ AddPerm
    \/ RegisterPermissions
    \/ PutPermissions
    \/ PermissionsReturn

\* ------------------------------------------------------------------------
\* Startup: the on_ready listener, then the 'slash_permissions' listener
\* ------------------------------------------------------------------------
MaxReady == 2        \* most 'ready' events dispatched to the bot

\* a listener that stays registered
KeepListener == TRUE

\* line 81: `self.remove_listener(on_ready)`, whether on_ready is a listener
\* afterwards
RemoveListener == FALSE

\* the client dispatches 'ready' (on connecting and again after a reconnect
\* that could not resume): every listener registered for it is started.
\* on_ready runs lines 81-84 before its first await.
ReadyEvent ==
    /\ ready_events < MaxReady
    /\ ready_events' = ready_events + 1
    /\ IF listening
       THEN /\ listening' = RemoveListener
            /\ ready' = "listener"
       ELSE UNCHANGED <<listening, ready>>
    /\ UNCHANGED <<declVars, rpc, debug_guild, bot_guilds, remote, next_id,
                   guilds, pending, state, tasks, writes, runs>>
    /\ UNCHANGED <<invokeVars, respondVars, permVars, compVars, resolveVars,
                   gatewayVars, optionVars, contextVars>>

\* on_ready line 86: `await self.register_commands()`, no call of
\* register_commands being in progress
OnReadyRegister ==
    /\ ready = "listener" /\ rpc \in {"idle", "done", "raised"}
    /\ RegisterCommandsCall("on_ready", NoneId)

\* on_slash_permissions lines 233-234, started by the dispatch of line 87:
\* `await self.register_permissions()`
OnSlashPermissions ==
    /\ ready = "permissions" /\ ppc = "idle"
    /\ RegisterPermissionsCall(NoneId)

NextStartup ==
    \/ ReadyEvent
    \/ OnReadyRegister
    \/ FetchAndSync
    \/ CreateTasks
    \/ ProcessCommand
    \/ Gather
    \/ OnReadyEnd
    \/ OnSlashPermissions
    \/ PutPermissions
    \/ PermissionsReturn

\* ------------------------------------------------------------------------
\* Component callbacks: component_callback / add_component_callback,
\* wait_and_deregister, handle_component_interaction
\* ------------------------------------------------------------------------
MaxRegistrations == 3    \* most registrations of component callbacks

Callbacks == {"cbA", "cbB"}
\* ttl: None, or a number of seconds (DEFAULT_TTL = 15*60)
TTLs == {None, "900"}

\* what a matcher coroutine can return, and `if await c.matcher(ctx)`
MatcherReturns == {"True", "One", "None"}
Truthy(r) == r \in {"True", "One"}

\* the orders in which iterating a set can yield its elements
AllOrders(S) ==
    {q \in [1..Cardinality(S) -> S] : \A i, j \in DOMAIN q : q[i] = q[j] => i = j}

\* ComponentCallback.deregister(bot): the callback leaves the registry
Deregister(c) == comp_callbacks \ {c}

\* component_callback(matcher, ttl)(func), or add_component_callback(func,
\* ttl=ttl) with a ComponentCallback made before: the callback is added to
\* the set and the wait_and_deregister task is created, not awaited.
\* The call is made inside the running event loop (from a command or an
\* event handler), where asyncio.create_task returns the task.
\* Callbacks are registered between two dispatches, so that a set being
\* iterated can only lose elements.
AddComponentCallback ==
    /\ Len(reg_order) < MaxRegistrations
    /\ cpc # "matching"
    /\ \E c \in Callbacks, ttl \in TTLs :
        /\ comp_callbacks' = comp_callbacks \cup {c}
        /\ reg_order' = Append(reg_order, [cb |-> c, ttl |-> ttl])
        /\ timers' = timers \cup {[cb |-> c, ttl |-> ttl,
                                    n |-> Len(reg_order) + 1,
                                    stage |-> "created"]}
    /\ UNCHANGED <<cpc, iter, tested, command, cescaped>>
    /\ UNCHANGED <<declVars, invokeVars, respondVars, syncVars, permVars, resolveVars, gatewayVars, optionVars, readyVars, contextVars>>

\* a wait_and_deregister that sleeps and deregisters whatever ttl is
WaitsAlways(ttl) == TRUE

\* wait_and_deregister line 140: `if ttl is not None`
Waits(ttl) == ttl # None

\* the task starts: it goes to sleep, or ends at once when ttl is None
WaitAndDeregisterStart ==
    /\ \E t \in timers :
        /\ t.stage = "created"
        /\ timers' = IF Waits(t.ttl)
                      THEN (timers \ {t}) \cup {[t EXCEPT !.stage = "sleeping"]}
                      ELSE timers \ {t}
    /\ UNCHANGED <<comp_callbacks, reg_order, cpc, iter, tested, command,
                   cescaped>>
    /\ UNCHANGED <<declVars, invokeVars, respondVars, syncVars, permVars, resolveVars, gatewayVars, optionVars, readyVars, contextVars>>

\* asyncio.sleep(ttl) is over: callback.deregister(self), and the task ends
WaitAndDeregisterWake ==
    /\ \E t \in timers :
        /\ t.stage = "sleeping"
        /\ comp_callbacks' = Deregister(t.cb)
        /\ timers' = timers \ {t}
    /\ UNCHANGED <<reg_order, cpc, iter, tested, command, cescaped>>
    /\ UNCHANGED <<declVars, invokeVars, respondVars, syncVars, permVars, resolveVars, gatewayVars, optionVars, readyVars, contextVars>>

\* the application calls ComponentCallback.deregister itself
DeregisterByHand ==
    /\ \E c \in comp_callbacks : comp_callbacks' = Deregister(c)
    /\ UNCHANGED <<reg_order, timers, cpc, iter, tested, command, cescaped>>
    /\ UNCHANGED <<declVars, invokeVars, respondVars, syncVars, permVars, resolveVars, gatewayVars, optionVars, readyVars, contextVars>>

CompDispatchIdle ==
    /\ cpc = "idle" /\ iter = [used |-> 0, rest |-> <<>>] /\ tested = <<>>
    /\ command = None /\ cescaped = None

\* handle_component_interaction lines 223-224: the context is built with
\* command None and the for loop creates the iterator of the set
HandleComponentInteraction ==
    /\ cpc \in {"idle", "done"}
    /\ \E q \in AllOrders(comp_callbacks) :
            iter' = [used |-> Cardinality(comp_callbacks), rest |-> q]
    /\ tested' = <<>> /\ command' = None /\ cescaped' = None
    /\ cpc' = "matching"
    /\ dispatched' = <<>>
    /\ UNCHANGED <<comp_callbacks, reg_order, timers>>
    /\ UNCHANGED <<pc, ctx, chain, hooks, trace, last, exc, escaped>>
    /\ UNCHANGED <<declVars, respondVars, syncVars, permVars, resolveVars, gatewayVars, optionVars, readyVars, contextVars>>

\* one step of `for c in self.comp_callbacks`: the iterator raises
\* RuntimeError when the set has changed size since it was created; when it
\* is exhausted the else clause raises CommandNotFound; otherwise
\* ctx.command = c and the matcher is awaited
MatchNext ==
    /\ cpc = "matching"
    /\ IF Cardinality(comp_callbacks) # iter.used
       THEN /\ cescaped' = "RuntimeError" /\ cpc' = "done"
            /\ UNCHANGED <<iter, tested, command>>
       ELSE LET rest == iter.rest IN
            IF rest = <<>>
            THEN /\ cescaped' = "CommandNotFound" /\ cpc' = "done"
                 /\ UNCHANGED <<iter, tested, command>>
            ELSE \E r \in MatcherReturns \cup {"ValueError"} :
                 /\ command' = Head(rest)
                 /\ tested' = Append(tested, [cb |-> Head(rest), result |-> r])
                 /\ iter' = [iter EXCEPT !.rest = Tail(rest)]
                 /\ IF r \notin MatcherReturns
                    THEN cescaped' = r /\ cpc' = "done"
                    ELSE /\ cpc' = IF Truthy(r) THEN "do_invoke" ELSE "matching"
                         /\ UNCHANGED cescaped
    /\ UNCHANGED <<comp_callbacks, reg_order, timers>>
    /\ UNCHANGED <<declVars, invokeVars, respondVars, syncVars, permVars, resolveVars, gatewayVars, optionVars, readyVars, contextVars>>

\* `await self.do_invoke(ctx, 'component_callback')`: the callback in
\* ctx.command is invoked; e is what its invocation raises (None: nothing)
DoInvokeComponent ==
    /\ cpc = "do_invoke"
    /\ \E e \in {None} \cup UserRaises :
        LET before == [event |-> "before_component_callback_invoke",
                       error |-> None, original |-> None]
            clause == ExceptClause(e)
        IN dispatched' =
            CASE clause = "CommandError" ->
                    <<before, [event |-> "command_error", error |-> e,
                               original |-> None]>>
              [] clause = "CancelledError" -> <<before>>
              [] clause = "Exception" ->
                    <<before, [event |-> "command_error",
                               error |-> "CommandInvokeError", original |-> e]>>
              [] clause = "else" ->
                    <<before, [event |-> "after_component_callback_invoke",
                               error |-> None, original |-> None]>>
    /\ cpc' = "done"
    /\ UNCHANGED <<comp_callbacks, reg_order, timers, iter, tested, command,
                   cescaped>>
    /\ UNCHANGED <<pc, ctx, chain, hooks, trace, last, exc, escaped>>
    /\ UNCHANGED <<declVars, respondVars, syncVars, permVars, resolveVars, gatewayVars, optionVars, readyVars, contextVars>>

\* registration and automatic deregistration alone
NextTimers ==
    \/ AddComponentCallback
    \/ WaitAndDeregisterStart
    \/ WaitAndDeregisterWake
    \/ DeregisterByHand

NextComponents ==
    \/ AddComponentCallback
    \/ WaitAndDeregisterStart
    \/ WaitAndDeregisterWake
    \/ DeregisterByHand
    \/ HandleComponentInteraction
    \/ MatchNext
    \/ DoInvokeComponent

\* ------------------------------------------------------------------------
\* Resolution of an option value: Context._kwargs_from_options, _try_get
\* ------------------------------------------------------------------------
\* option types whose value is a reference to an entity
EntityOptionTypes == {"USER", "CHANNEL", "ROLE", "MENTIONABLE"}
\* the keys 'members', 'users', 'channels', 'roles' of the resolved payload
Sections == {"member", "user", "channel", "role"}

\* what one resolution reads: the two policy flags of the bot, the type of
\* the option, ctx.guild (a Guild, a bare Object, or None in a DM), whether
\* the guild's caches hold the entity, whether a fetch succeeds, and the
\* sections of the resolved payload that hold the ID
ResolveInputs ==
    [resolve_not_fetch : BOOLEAN, fetch_if_not_get : BOOLEAN,
     opttype : EntityOptionTypes,
     guild : {"Guild", "Object", None},
     cache : [{"member", "channel", "role"} -> {"hit", "miss"}],
     fetch : [{"member", "channel"} -> {"ok", "HTTPException"}],
     resolved : SUBSET Sections]

Entity(kind, of, via) == [kind |-> kind, of |-> of, via |-> via]
\* value = discord.Object(value)
Default == Entity("Object", None, "default")

\* get_method(default.id): self.guild.get_member / get_channel / get_role
\* raise AttributeError unless ctx.guild is a Guild; calling the get_method
\* None raises TypeError
GetOutcome(t, get, e) ==
    IF get = None THEN "TypeError"
    ELSE IF e.guild # "Guild" THEN "AttributeError"
    ELSE e.cache[t]

\* await fetch_method(default.id)
FetchOutcome(t, fetch, e) ==
    IF fetch = None THEN "TypeError" ELSE e.fetch[t]

\* a _try_get that looks in the cache whatever the payload holds
ConsultsAlways(fq, present) == TRUE

\* _try_get lines 126-127: `if fq or resolved is None or str(default.id)
\* not in resolved[typename+'s']` (resolved is a dict for every option)
Consults(fq, present) == fq \/ ~present

\* _try_get lines 162-173: the entity is built from the payload, or the
\* default is returned
FromPayload(t, e, log) ==
    IF t \in e.resolved
    THEN [value |-> Entity("partial", t, "resolved"),
          log |-> Append(log, [op |-> "resolve", of |-> t])]
    ELSE [value |-> Default, log |-> log]

\* BaseContext._try_get(default, get_method, fetch_method, typename,
\* resolved=resolved, fng=fng, fq=fq): the value returned or the exception
\* raised, and the lookups made, in order
TryGet(t, get, fetch, fq, fng, e) ==
    IF ~Consults(fq, t \in e.resolved) THEN FromPayload(t, e, <<>>)
    ELSE LET g == GetOutcome(t, get, e)
             got == <<[op |-> "get", of |-> t]>>
             fetched == Append(got, [op |-> "fetch", of |-> t])
         IN
         IF g = "TypeError"
         THEN [value |-> Entity("raised", "TypeError", "get"), log |-> <<>>]
         ELSE IF g = "AttributeError" THEN FromPayload(t, e, got)
         ELSE IF g = "miss" /\ fng
         THEN LET f == FetchOutcome(t, fetch, e) IN
              IF f = "TypeError"
              THEN [value |-> Entity("raised", "TypeError", "fetch"),
                    log |-> got]
              ELSE IF f = "ok"
              THEN [value |-> Entity("full", t, "fetch"), log |-> fetched]
              ELSE FromPayload(t, e, fetched)
         \* `elif not fng: raise ValueError`, caught at line 148
         ELSE IF ~fng THEN FromPayload(t, e, got)
         ELSE [value |-> Entity("full", t, "cache"), log |-> got]

\* Context._try_get_user(value, resolved, try_user)
TryGetUser(e, try_user) ==
    LET m == TryGet("member", "guild", "guild", ~e.resolve_not_fetch,
                    e.fetch_if_not_get, e)
    IN  IF m.value.kind = "Object" /\ try_user
        THEN LET u == TryGet("user", None, None, FALSE,
                             e.fetch_if_not_get, e)
             IN [value |-> u.value, log |-> m.log \o u.log]
        ELSE m

\* Context._try_get_channel(value, resolved)
TryGetChannel(e) ==
    TryGet("channel", "guild", "client", ~e.resolve_not_fetch,
           e.fetch_if_not_get, e)

\* Context._try_get_role(value, resolved): fetch_method None, fng=False
TryGetRole(e) ==
    TryGet("role", "guild", None, ~e.resolve_not_fetch, FALSE, e)

ResolveIdle == rpos = "idle" /\ value = NoRecord /\ rlog = <<>>

Resolved(r) ==
    /\ value' = r.value /\ rlog' = rlog \o r.log /\ rpos' = "done"
    /\ UNCHANGED rin
    /\ UNCHANGED <<declVars, invokeVars, respondVars, syncVars, permVars,
                   compVars, gatewayVars, optionVars, readyVars, contextVars>>

\* _kwargs_from_options, `opttype == ApplicationCommandOptionType.USER`
ResolveUser ==
    /\ rpos = "idle" /\ rin.opttype = "USER"
    /\ Resolved(TryGetUser(rin, TRUE))

ResolveChannel ==
    /\ rpos = "idle" /\ rin.opttype = "CHANNEL"
    /\ Resolved(TryGetChannel(rin))

ResolveRole ==
    /\ rpos = "idle" /\ rin.opttype = "ROLE"
    /\ Resolved(TryGetRole(rin))

\* a MENTIONABLE option that is tried as a role in every case
RetryAsRoleAlways(v) == TRUE

\* line 440: `if type(value) is discord.Object`
RetryAsRole(v) == v.kind = "Object"

\* MENTIONABLE, line 439: value = await self._try_get_user(value, resolved,
\* False)
ResolveMentionable ==
    /\ rpos = "idle" /\ rin.opttype = "MENTIONABLE"
    /\ LET r == TryGetUser(rin, FALSE) IN
        /\ value' = r.value /\ rlog' = r.log
        /\ rpos' = IF RetryAsRole(r.value) THEN "role" ELSE "done"
    /\ UNCHANGED rin
    /\ UNCHANGED <<declVars, invokeVars, respondVars, syncVars, permVars,
                   compVars, gatewayVars, optionVars, readyVars, contextVars>>

\* MENTIONABLE, line 441: value = await self._try_get_role(value, resolved)
MentionableRole ==
    /\ rpos = "role"
    /\ Resolved(TryGetRole(rin))

NextResolve ==
    \/ ResolveUser
    \/ ResolveChannel
    \/ ResolveRole
    \/ ResolveMentionable
    \/ MentionableRole

\* ------------------------------------------------------------------------
\* The gateway listener: SlashBot.on_interaction_create
\* ------------------------------------------------------------------------
\* InteractionType
PING == 1
APPLICATION_COMMAND == 2
MESSAGE_COMPONENT == 3
APPLICATION_COMMAND_AUTOCOMPLETE == 4

\* event['version'] and event['type'] of the events received
EventVersions == {1, 2}
EventTypes == {PING, APPLICATION_COMMAND, MESSAGE_COMPONENT,
               APPLICATION_COMMAND_AUTOCOMPLETE}

\* a listener that accepts every version
VersionAny(v) == TRUE

\* line 174: `if event['version'] != 1: raise RuntimeError(...)`
VersionSupported(v) == v = 1

\* lines 174-183: what the listener does with the event
Route(v, t) ==
    IF ~VersionSupported(v) THEN "RuntimeError"
    ELSE IF t = APPLICATION_COMMAND THEN "slash"
    ELSE IF t = MESSAGE_COMPONENT THEN "component"
    ELSE "ignored"

\* the listener is called with an event: it raises, returns at once, or goes
\* on to await one of the two handlers
OnInteractionCreate ==
    /\ gateway = NoRecord
    /\ \E v \in EventVersions, t \in EventTypes :
        /\ gateway' = [version |-> v, type |-> t, route |-> Route(v, t)]
        /\ IF Route(v, t) = "RuntimeError"
           THEN escaped' = "RuntimeError" /\ pc' = "done"
           ELSE IF Route(v, t) = "ignored"
           THEN pc' = "done" /\ UNCHANGED escaped
           ELSE UNCHANGED <<pc, escaped>>
    /\ UNCHANGED <<ctx, chain, hooks, trace, last, exc, dispatched>>
    /\ UNCHANGED <<declVars, respondVars, syncVars, permVars, compVars,
                   resolveVars, optionVars, readyVars, contextVars>>

\* line 181: `await self.handle_slash_command(event)`
DispatchSlash ==
    /\ gateway # NoRecord /\ gateway.route = "slash"
    /\ HandleSlashCommand

\* line 183: `await self.handle_component_interaction(event)`
DispatchComponent ==
    /\ gateway # NoRecord /\ gateway.route = "component"
    /\ cpc = "idle"
    /\ HandleComponentInteraction

NextGateway ==
    \/ OnInteractionCreate
    \/ DispatchSlash
    \/ RunCheck
    \/ Invoke
    \/ RunHook
    \/ RunLeaf
    \/ DoInvokeHandle
    \/ DispatchComponent
    \/ MatchNext
    \/ DoInvokeComponent

\* ------------------------------------------------------------------------
\* Option.__init__: the type of an option and its bounds
\* ------------------------------------------------------------------------
\* a number is an int or a float; h is twice its value, so that 0.5 and
\* -1.5 are numbers
Num(t, h) == [t |-> t, h |-> h]
NumberValues ==
    {Num("int", -2), Num("int", 0), Num("int", 4),
     Num("float", -3), Num("float", 1), Num("float", 4)}

\* int(x): truncation towards zero
ToInt(x) ==
    Num("int", IF x.h >= 0 THEN 2 * (x.h \div 2) ELSE -2 * ((-x.h) \div 2))

\* float(x)
ToFloat(x) == Num("float", x.h)

\* the arguments of Option(description, type, **kwargs): type STRING is the
\* default of the parameter, NoRecord stands for a keyword that is not given
OptionArgs ==
    [description : {"str", "ChoiceEnum"},
     type : {"STRING", "INTEGER", "NUMBER"},
     channel_types : BOOLEAN,
     max_value : NumberValues \cup {NoRecord},
     min_value : NumberValues \cup {NoRecord}]

\* an inference that takes every bound for a float
InferAlwaysNumber(x) == "NUMBER"

\* lines 109-112 and 119-122: isinstance(value, int) / isinstance(value,
\* float)
InferType(x) == IF x.t = "int" THEN "INTEGER" ELSE "NUMBER"

\* lines 103-112 for max_value and 113-122 for min_value: with a numeric
\* type the bound is cast to it, otherwise the type is inferred from the
\* bound
Bound(type, x) ==
    IF x = NoRecord THEN [type |-> type, bound |-> NoRecord]
    ELSE IF type = "INTEGER" THEN [type |-> type, bound |-> ToInt(x)]
    ELSE IF type = "NUMBER" THEN [type |-> type, bound |-> ToFloat(x)]
    ELSE [type |-> InferType(x), bound |-> x]

\* Option.__init__, lines 95-131: the attributes type, max_value and
\* min_value of the new Option
NewOption(a) ==
    LET declared == IF a.channel_types THEN "CHANNEL" ELSE a.type
        hi == Bound(declared, a.max_value)
        lo == Bound(hi.type, a.min_value)
    IN  [type |-> IF a.description = "ChoiceEnum" THEN "STRING" ELSE lo.type,
         max_value |-> hi.bound,
         min_value |-> lo.bound]

OptionInit ==
    /\ opt_args # NoRecord /\ option = NoRecord
    /\ option' = NewOption(opt_args)
    /\ UNCHANGED opt_args
    /\ UNCHANGED <<declVars, invokeVars, respondVars, syncVars, permVars,
                   compVars, resolveVars, gatewayVars, readyVars, contextVars>>

NextOption == OptionInit

\* ------------------------------------------------------------------------
\* Construction of a Context: handle_slash_command lines 202-219,
\* Context.__init__, Context._kwargs_from_options
\* ------------------------------------------------------------------------
\* The command tree: the top-level command named "ping" is a Group whose
\* groups hold a Group or Command "grp" and a Command "sub", nested MaxDepth
\* levels; every other top-level command is a Command.  A node is named by
\* its top-level command and the path of names that leads to it.
IsGroup(top, path) ==
    /\ decl[top].name = "ping"
    /\ Len(path) < MaxDepth
    /\ \A i \in 1..Len(path) : path[i] = "grp"

\* Group.slash: the names of the subcommands
Children(top, path) == IF IsGroup(top, path) THEN {"grp", "sub"} ELSE {}

\* Command.options: parameter name -> Option.name.  A Command has the
\* parameters ctx, a (an Option named "alpha") and b; a Group has ctx only.
CommandOptions(top, path) ==
    IF IsGroup(top, path) THEN <<>> ELSE ("a" :> "alpha" @@ "b" :> "b")

\* Command._ctx_arg[0]
CtxArg == "ctx"

\* one element of an 'options' list of the payload: it has the key 'value',
\* the key 'options', or neither
Opt(name, has_value, v, has_options, options) ==
    [name |-> name, has_value |-> has_value, value |-> v,
     has_options |-> has_options, options |-> options]

OptionNames == {"grp", "sub", "nope"}
Paths == UNION {[1..n -> OptionNames] : n \in 0..MaxDepth}

\* the option values an event supplies to the command it targets
SuppliedValues ==
    {<<>>,
     <<[name |-> "alpha", value |-> "v1"]>>,
     <<[name |-> "b", value |-> "v2"], [name |-> "alpha", value |-> "v1"]>>,
     <<[name |-> "zeta", value |-> "v1"]>>}

\* event['data']['options'] of an event that names the subcommands `path`
\* and supplies `supplied`; `bare` when the innermost subcommand comes
\* without the key 'options'
RECURSIVE DataOptions(_, _, _)
DataOptions(path, supplied, bare) ==
    IF path = <<>>
    THEN [i \in 1..Len(supplied) |->
            Opt(supplied[i].name, TRUE, supplied[i].value, FALSE, <<>>)]
    ELSE IF Len(path) = 1 /\ bare
    THEN <<Opt(path[1], FALSE, None, FALSE, <<>>)>>
    ELSE <<Opt(path[1], FALSE, None, TRUE,
               DataOptions(Tail(path), supplied, bare))>>

ContextEvents ==
    {e \in [id : EventIds, name : EventNames, guild_id : Scopes,
            keyed : BOOLEAN, path : Paths, supplied : SuppliedValues,
            bare : BOOLEAN] :
        /\ ~e.keyed => e.guild_id = NoneId
        /\ e.bare => e.path # <<>> /\ e.supplied = <<>>}

Fails(e) == [raised |-> e, command |-> <<>>, options |-> <<>>]

\* a test of line 448 that takes every command for a leaf
HasSlashNever(top, path) == FALSE

\* line 448: hasattr(self.command, 'slash')
HasSlash(top, path) == IsGroup(top, path)

\* Context._kwargs_from_options(options, resolved), lines 402-453, with
\* self.command the node `path` below `top`; KwargsLoop is the for loop
\* from its i-th element on and what follows the loop
RECURSIVE KwargsFromOptions(_, _, _)
RECURSIVE KwargsLoop(_, _, _, _, _)
KwargsLoop(top, path, options, i, kwargs) ==
    IF i > Len(options)
    THEN IF HasSlash(top, path)
         THEN IF options = <<>>
              THEN Fails("UnboundLocalError")        \* `opt` was never bound
              ELSE LET opt == options[Len(options)] IN
                   IF opt.name \notin Children(top, path)
                   THEN Fails("KeyError")
                   ELSE KwargsFromOptions(top, Append(path, opt.name),
                                          opt.options)
         ELSE [raised |-> None, command |-> path,
               options |-> Update(kwargs, CtxArg :> "self")]
    ELSE LET opt == options[i]
             params == {k \in DOMAIN CommandOptions(top, path) :
                            CommandOptions(top, path)[k] = opt.name}
         IN IF opt.has_value
            THEN IF params = {}
                 THEN Fails("CommandInvokeError")
                 ELSE KwargsLoop(top, path, options, i + 1,
                        Update(kwargs, (CHOOSE k \in params : TRUE) :> opt.value))
            ELSE IF opt.has_options
            THEN IF ~IsGroup(top, path)
                 THEN Fails("AttributeError")        \* a Command has no slash
                 ELSE IF opt.name \notin Children(top, path)
                 THEN Fails("KeyError")
                 ELSE KwargsFromOptions(top, Append(path, opt.name),
                                        opt.options)
            ELSE KwargsLoop(top, path, options, i + 1, kwargs)

KwargsFromOptions(top, path, options) ==
    KwargsLoop(top, path, options, 1, <<>>)

\* handle_slash_command lines 202-219: the command is located and the
\* Context is constructed for it
BuildContext ==
    /\ event # NoRecord /\ built = NoRecord
    /\ IF LocateRaises(event)
       THEN built' = [located |-> {}] @@ Fails("KeyError")
       ELSE IF Located(event) = {}
       THEN built' = [located |-> {}] @@ Fails("CommandNotFound")
       ELSE \E o \in Located(event) :
            built' = [located |-> {o}] @@
                KwargsFromOptions(o, <<>>,
                    DataOptions(event.path, event.supplied, event.bare))
    /\ UNCHANGED event
    /\ UNCHANGED <<declVars, invokeVars, respondVars, syncVars, permVars,
                   compVars, resolveVars, gatewayVars, optionVars, readyVars>>

NextContext == BuildContext

\* ------------------------------------------------------------------------
\* Initial states
\* ------------------------------------------------------------------------
RespondIdle ==
    /\ webhook = None /\ requests = <<>> /\ payload = NoRecord /\ raised = None
    /\ call = NoRecord

\* no add_perm call made, register_permissions not called
PermIdle ==
    /\ permissions = [o \in slash |-> <<>>]
    /\ nperm = 0 /\ ppc = "idle" /\ perm_filter = NoneId
    /\ perm_guilds = <<>> /\ perm_pending = {} /\ puts = <<>>
    /\ closing = FALSE

\* SlashBot.__init__: `self.comp_callbacks = set()`
CompIdle ==
    /\ comp_callbacks = {} /\ reg_order = <<>> /\ timers = {}
    /\ CompDispatchIdle

\* no option is being resolved
ResolveOff == rin = NoRecord /\ ResolveIdle

\* no event received
GatewayIdle == gateway = NoRecord

\* SlashBot.__init__ lines 79-80: `@self.listen()` has registered on_ready
\* and no 'ready' event has been dispatched
ReadyIdle == listening = TRUE /\ ready_events = 0

\* no Context being constructed
ContextOff == event = NoRecord /\ built = NoRecord

\* no Option being constructed
OptionOff == opt_args = NoRecord /\ option = NoRecord

\* the schema a command is declared with (Command.__init__)
LocalSchemas ==
    {[description |-> "d1", options |-> <<>>, default_permission |-> TRUE],
     [description |-> "d1", options |-> <<"opt">>, default_permission |-> TRUE],
     [description |-> "d1", options |-> <<>>, default_permission |-> FALSE]}

Declare(o, sch) ==
    [name |-> o[1], description |-> sch.description, options |-> sch.options,
     default_permission |-> sch.default_permission]

DefaultSchema == [description |-> "d1", options |-> <<>>, default_permission |-> TRUE]

\* a bot with two declared commands, registered (ids 1 and 2) or not yet
InvokeRegistry ==
    /\ slash = {<<"ping", NoneId>>, <<"old", 1>>}
    /\ decl = [o \in slash |-> Declare(o, DefaultSchema)]
    /\ cmd_guild_id = [o \in slash |-> o[2]]
    /\ cmd_id \in {[o \in slash |-> NoneId],
                   [o \in slash |-> IF o[1] = "ping" THEN 1 ELSE 2]}

SyncIdle ==
    /\ rpc = "idle" /\ debug_guild = NoneId /\ bot_guilds = {}
    /\ remote = [sc \in Scopes |-> {}]
    /\ next_id = 100 /\ guilds = <<>> /\ pending = {} /\ state = <<>>
    /\ tasks = {} /\ writes = {} /\ runs = <<>> /\ ready = "waiting"

\* what the API can hold for a command before the run, besides name and id
RemoteSchemas ==
    {[description |-> "d1", default_permission |-> TRUE],
     [description |-> "d2", default_permission |-> TRUE],
     [description |-> "d1", options |-> <<"opt">>, default_permission |-> TRUE],
     [description |-> "d1", default_permission |-> FALSE],
     [description |-> "d1"]}

\* ids the API gave to the commands it already holds
RemoteId(sc, n) == 10 * (sc + 1) + (IF n = "ping" THEN 1 ELSE 2)

\* the API's state when K is the set of <<scope, name>> it holds and f gives
\* the rest of each record
RemoteState(K, f) ==
    [sc \in Scopes |->
        {Update(f[k], [name |-> k[2], id |-> RemoteId(sc, k[2])]) :
            k \in {q \in K : q[1] = sc}}]

\* Bounded declarations and API state: the schema varies for the commands
\* named "ping"; a command named "old" is declared with DefaultSchema and
\* held by the API with description and default_permission only.
SchemasOf(n, schemas, fixed) == IF n = "ping" THEN schemas ELSE {fixed}

InitSync ==
    /\ slash \in {S \in SUBSET Objs : Cardinality(S) <= MaxDeclared}
    /\ decl \in {[o \in slash |-> Declare(o, f[o])] :
                    f \in {g \in [slash -> LocalSchemas] :
                        \A o \in slash :
                            g[o] \in SchemasOf(o[1], LocalSchemas, DefaultSchema)}}
    /\ cmd_guild_id = [o \in slash |-> o[2]]
    /\ cmd_id = [o \in slash |-> NoneId]
    /\ cog = [i \in 1..MaxDepth |-> None]
    /\ bot_checks = 0
    /\ InvokeIdle
    /\ RespondIdle
    /\ PermIdle
    /\ CompIdle
    /\ ResolveOff /\ GatewayIdle /\ OptionOff /\ ReadyIdle /\ ContextOff
    /\ rpc = "idle"
    /\ debug_guild \in Scopes
    /\ bot_guilds \in SUBSET GuildIds
    /\ \E K \in {S \in SUBSET (Scopes \X Names) : Cardinality(S) <= MaxRemote} :
            remote \in {RemoteState(K, f) :
                f \in {g \in [K -> RemoteSchemas] :
                    \A k \in K :
                        g[k] \in SchemasOf(k[2], RemoteSchemas,
                            [description |-> "d1", default_permission |-> TRUE])}}
    /\ next_id = 100
    /\ guilds = <<>> /\ pending = {} /\ state = <<>>
    /\ tasks = {} /\ writes = {} /\ runs = <<>> /\ ready = "waiting"

\* re-registration is explored for a bot that is in every guild it knows,
\* with the commands named "ping" (the ones whose schema varies) declared
\* and held by the API
InitResync ==
    /\ InitSync
    /\ bot_guilds = GuildIds
    /\ \A o \in slash : o[1] = "ping"
    /\ \A sc \in Scopes : \A r \in remote[sc] : r.name = "ping"

InitInvoke ==
    /\ InvokeRegistry
    /\ cog \in [1..MaxDepth -> CogIds \cup {None}]
    /\ bot_checks \in 0..MaxBotChecks
    /\ InvokeIdle
    /\ RespondIdle
    /\ SyncIdle
    /\ PermIdle
    /\ CompIdle
    /\ ResolveOff /\ GatewayIdle /\ OptionOff /\ ReadyIdle /\ ContextOff

InitRespond ==
    /\ InvokeRegistry /\ cmd_id = [o \in slash |-> NoneId]
    /\ cog = [i \in 1..MaxDepth |-> None]
    /\ bot_checks = 0
    /\ pc = "callback" /\ chain = <<>> /\ hooks = <<>>
    /\ trace = <<>> /\ last = NoRecord /\ exc = None /\ dispatched = <<>>
    /\ escaped = None
    /\ ctx \in [top : {<<"ping", NoneId>>}, depth : {0}, guild : {None, "Guild"},
                channel : {"Channel"}, author : {"Author"},
                kind : {"slash", "component"}]
    /\ RespondIdle
    /\ SyncIdle
    /\ PermIdle
    /\ CompIdle
    /\ ResolveOff /\ GatewayIdle /\ OptionOff /\ ReadyIdle /\ ContextOff

\* a slash-command context, of a guild or of a DM, handed to its callback
InitChannel == InitRespond /\ ctx.kind = "slash"

\* the permission pass: a global command and a command of guild 1, both
\* registered, on a bot that is in no guild or in both
InitPerms ==
    /\ InvokeRegistry /\ \A o \in slash : cmd_id[o] # NoneId
    /\ cog = [i \in 1..MaxDepth |-> None]
    /\ bot_checks = 0
    /\ InvokeIdle
    /\ RespondIdle
    /\ rpc = "idle" /\ debug_guild = NoneId
    /\ bot_guilds \in {{}, PermGuildIds}
    /\ remote = [sc \in Scopes |-> {}]
    /\ next_id = 100 /\ guilds = <<>> /\ pending = {} /\ state = <<>>
    /\ tasks = {} /\ writes = {} /\ runs = <<>> /\ ready = "permissions"
    /\ PermIdle
    /\ CompIdle
    /\ ResolveOff /\ GatewayIdle /\ OptionOff /\ ContextOff
    /\ listening = FALSE /\ ready_events = 1

InitComponents ==
    /\ InvokeRegistry /\ cmd_id = [o \in slash |-> NoneId]
    /\ cog = [i \in 1..MaxDepth |-> None]
    /\ bot_checks = 0
    /\ InvokeIdle
    /\ RespondIdle
    /\ SyncIdle
    /\ PermIdle
    /\ CompIdle
    /\ ResolveOff /\ GatewayIdle /\ OptionOff /\ ReadyIdle /\ ContextOff

\* one option of an interaction for command 'ping'; the payload holds the
\* user snapshot of every member it holds a snapshot of
InitResolve ==
    /\ InvokeRegistry /\ cmd_id = [o \in slash |-> NoneId]
    /\ cog = [i \in 1..MaxDepth |-> None]
    /\ bot_checks = 0
    /\ InvokeIdle
    /\ RespondIdle
    /\ SyncIdle
    /\ PermIdle
    /\ CompIdle
    /\ GatewayIdle /\ OptionOff /\ ReadyIdle /\ ContextOff
    /\ rin \in ResolveInputs
    /\ "member" \in rin.resolved => "user" \in rin.resolved
    /\ ResolveIdle

\* a bot with its commands declared and with no or one component callback
\* registered without ttl, before an event arrives
InitGateway ==
    /\ InvokeRegistry
    /\ cog \in [1..MaxDepth -> CogIds \cup {None}]
    /\ bot_checks \in 0..1
    /\ InvokeIdle
    /\ RespondIdle
    /\ SyncIdle
    /\ PermIdle
    /\ \E S \in {{}, {"cbA"}} :
        /\ comp_callbacks = S
        /\ reg_order = IF S = {} THEN <<>> ELSE <<[cb |-> "cbA", ttl |-> None]>>
    /\ timers = {}
    /\ CompDispatchIdle
    /\ ResolveOff /\ GatewayIdle /\ OptionOff /\ ReadyIdle /\ ContextOff

\* an Option is about to be constructed with arguments opt_args
InitOption ==
    /\ InvokeRegistry /\ cmd_id = [o \in slash |-> NoneId]
    /\ cog = [i \in 1..MaxDepth |-> None]
    /\ bot_checks = 0
    /\ InvokeIdle
    /\ RespondIdle
    /\ SyncIdle
    /\ PermIdle
    /\ CompIdle
    /\ ResolveOff /\ GatewayIdle /\ ReadyIdle /\ ContextOff
    /\ opt_args \in OptionArgs /\ option = NoRecord

\* grants made with add_perm before the bot starts: none, one for every
\* guild, or one for guild 1
StartupGrants ==
    {<<>>, NoneId :> (<<7, ROLE>> :> TRUE), 1 :> (<<7, USER>> :> FALSE)}

\* what the API holds for a command before the bot starts, besides name
\* and id: the declared schema or another description
StartupSchemas ==
    {[description |-> "d1", default_permission |-> TRUE],
     [description |-> "d2", default_permission |-> TRUE]}

\* a bot before its first 'ready' event: a global command and a command of
\* guild 1, not yet registered, with grants declared; no debug guild
InitStartup ==
    /\ InvokeRegistry /\ cmd_id = [o \in slash |-> NoneId]
    /\ cog = [i \in 1..MaxDepth |-> None]
    /\ bot_checks = 0
    /\ InvokeIdle
    /\ RespondIdle
    /\ rpc = "idle" /\ debug_guild = NoneId
    /\ bot_guilds \in SUBSET GuildIds
    /\ \E K \in {S \in SUBSET (Scopes \X Names) : Cardinality(S) <= MaxRemote} :
            remote \in {RemoteState(K, f) :
                f \in {g \in [K -> StartupSchemas] :
                    \A k \in K :
                        g[k] \in SchemasOf(k[2], StartupSchemas,
                            [description |-> "d1", default_permission |-> TRUE])}}
    /\ next_id = 100
    /\ guilds = <<>> /\ pending = {} /\ state = <<>>
    /\ tasks = {} /\ writes = {} /\ runs = <<>> /\ ready = "waiting"
    /\ permissions \in [slash -> StartupGrants]
    /\ nperm = 0 /\ ppc = "idle" /\ perm_filter = NoneId
    /\ perm_guilds = <<>> /\ perm_pending = {} /\ puts = <<>>
    /\ closing = FALSE
    /\ CompIdle
    /\ ResolveOff /\ GatewayIdle /\ OptionOff /\ ReadyIdle /\ ContextOff

\* an interaction has arrived for a bot whose commands are registered or
\* not yet
InitContext ==
    /\ InvokeRegistry
    /\ cog = [i \in 1..MaxDepth |-> None]
    /\ bot_checks = 0
    /\ InvokeIdle
    /\ RespondIdle
    /\ SyncIdle
    /\ PermIdle
    /\ CompIdle
    /\ ResolveOff /\ GatewayIdle /\ OptionOff /\ ReadyIdle
    /\ event \in ContextEvents /\ built = NoRecord

SpecInvoke == InitInvoke /\ [][NextInvoke]_vars
SpecRespond == InitRespond /\ [][NextRespond]_vars
SpecChannel == InitChannel /\ [][NextChannel]_vars
SpecResolve == InitResolve /\ [][NextResolve]_vars
SpecGateway == InitGateway /\ [][NextGateway]_vars
SpecOption == InitOption /\ [][NextOption]_vars
SpecStartup == InitStartup /\ [][NextStartup]_vars
SpecContext == InitContext /\ [][NextContext]_vars
SpecSync == InitSync /\ [][NextSync]_vars
SpecResync == InitResync /\ [][NextResync]_vars
SpecPerms == InitPerms /\ [][NextPerms]_vars
SpecComponents == InitComponents /\ [][NextComponents]_vars
SpecTimers == InitComponents /\ [][NextTimers]_vars
\* the event loop runs every task that is ready, and a sleep of ttl seconds
\* ends
SpecTimersFair ==
    /\ SpecTimers
    /\ WF_vars(WaitAndDeregisterStart)
    /\ WF_vars(WaitAndDeregisterWake)

\* ------------------------------------------------------------------------
\* Properties
\* ------------------------------------------------------------------------
CheckKinds == {"bot", "cog", "group", "leaf"}
ValidationErrors == {"TypeError", "ValueError"}

Count(seq, P(_)) == Cardinality({i \in 1..Len(seq) : P(seq[i])})
IsCommandErrorEvent(d) == d.event = "command_error"
IsAfterInvokeEvent(d) == d.event = "after_slash_command_invoke"

\* C1: for every sequence of respond() calls on one context, the first call
\* that gets past validation issues a POST to the callback endpoint and moves
\* the context from unresponded to responded; every later respond() issues a
\* PATCH of the original message and never a second POST.
C1_FirstPostThenPatch ==
    [][(raised' \notin ValidationErrors) =>
            IF webhook = None
            THEN requests' = Append(requests, "POST") /\ webhook' # None
            ELSE requests' = Append(requests, "PATCH") /\ webhook' = webhook
      ]_<<webhook, requests, payload, raised>>

\* C2: a check aborts the invocation if and only if it returns the literal
\* False: after a check returns None or any other non-False value the
\* evaluation goes on (to the next check, or can_run passes); after a check
\* returns False a check failure is raised, the check is the last coroutine
\* awaited, and no parent hook and no leaf callback has run or runs.
C2_OnlyFalseAborts ==
    /\ [][(pc = "can_run" /\ trace' # trace /\ last'.result \in CheckReturns) =>
            /\ (last'.result = "False") <=> (pc' = "can_run_false")
            /\ (last'.result # "False") =>
                    /\ pc' \in {"can_run", "can_run_true"}
                    /\ (pc' = "can_run") <=> (chain' # <<>>)
          ]_vars
    /\ []((pc = "can_run_false" \/ exc = "CheckFailure") =>
            /\ last.kind \in CheckKinds /\ last.result = "False"
            /\ trace[Len(trace)] = [kind |-> last.kind, who |-> last.who]
            /\ \A i \in 1..Len(trace) : trace[i].kind \in CheckKinds)
    /\ []((last.kind \in CheckKinds /\ last.result = "False") =>
            /\ pc \in {"can_run_false", "except", "done"}
            /\ pc # "can_run_false" => exc = "CheckFailure")

C2_Witness ==
    /\ pc = "done" /\ exc = "CheckFailure" /\ ctx.depth = 2
    /\ last.kind = "group" /\ last.who = 1

\* C3: can_run evaluates every bot-level check before any group check, the
\* group checks from the outermost ancestor down to the immediate parent,
\* and the leaf's own check last; when can_run passes, every one of them has
\* been evaluated.
C3_CheckOrder ==
    /\ \A i, j \in 1..Len(trace) : i < j =>
        /\ trace[i].kind = "group" => trace[j].kind # "bot"
        /\ (trace[i].kind = "group" /\ trace[j].kind = "group") =>
                trace[i].who < trace[j].who
        /\ trace[i].kind = "leaf" => trace[j].kind \notin CheckKinds
    /\ pc = "can_run_true" =>
        /\ {trace[i].who : i \in {j \in 1..Len(trace) : trace[j].kind = "group"}}
                = 1..ctx.depth
        /\ Cardinality({i \in 1..Len(trace) : trace[i].kind = "bot"}) = bot_checks
        /\ trace[Len(trace)] = [kind |-> "leaf", who |-> ctx.depth + 1]

C3_Witness ==
    /\ pc = "can_run_true" /\ ctx.depth = 2 /\ bot_checks = 2
    /\ cog[1] = "CogA" /\ Len(trace) = 6

\* C4: the ancestor groups' callbacks run in root-to-leaf order, each exactly
\* once, only after the whole check chain has passed and before the leaf
\* callback; whatever a hook returns, the next hook or the leaf callback is
\* next.
C4_HooksInOrder ==
    /\ [](\A i, j \in 1..Len(trace) : i < j =>
            /\ (trace[i].kind = "hook" /\ trace[j].kind = "hook") =>
                    trace[i].who < trace[j].who
            /\ trace[i].kind \in {"hook", "callback"} =>
                    trace[j].kind \in {"hook", "callback"}
            /\ trace[i].kind = "callback" => FALSE)
    /\ []((\E i \in 1..Len(trace) : trace[i].kind \in {"hook", "callback"}) =>
            /\ exc # "CheckFailure"
            /\ \E i \in 1..Len(trace) : trace[i].kind = "leaf")
    /\ []((\E i \in 1..Len(trace) : trace[i].kind = "callback") =>
            {trace[i].who : i \in {j \in 1..Len(trace) : trace[j].kind = "hook"}}
                = 1..ctx.depth)
    /\ [][(pc = "invoke_parents" /\ trace' # trace
                /\ last'.result \in HookReturns) =>
            /\ exc' = None
            /\ pc' = IF hooks' = <<>> THEN "leaf" ELSE "invoke_parents"
          ]_vars

C4_Witness ==
    /\ pc = "leaf" /\ ctx.depth = 2
    /\ last.kind = "hook" /\ last.who = 2 /\ last.result = "False"

\* C5: whenever the check chain passes, the parent hooks and then the leaf
\* callback are invoked, for every context shape, a DM (guild None) included:
\* once invoke is over, some hook or the callback has been awaited, and the
\* callback has been awaited unless a hook raised.
ChainPassed ==
    /\ \E i \in 1..Len(trace) : trace[i].kind = "leaf"
    /\ ~(last.kind = "leaf" /\ last.result \in UserRaises \cup {"False"})

C5_PassedThenInvoked ==
    (pc \in {"except", "returned", "done"} /\ ChainPassed) =>
        /\ \E i \in 1..Len(trace) : trace[i].kind \in {"hook", "callback"}
        /\ (last.kind = "hook" => last.result \in UserRaises)

\* C6: do_invoke never lets a failure of invoke escape.  A CommandError (a
\* check failure included) gives exactly one command_error dispatch carrying
\* that error; any other exception but a cancellation gives exactly one
\* command_error dispatch carrying it wrapped in a CommandInvokeError; in both
\* cases nothing is raised and the after-invoke event is not dispatched; the
\* after-invoke event is dispatched exactly when invoke did not raise.
C6_ErrorsDispatched ==
    /\ ctx # NoRecord => escaped = None
    /\ Count(dispatched, IsCommandErrorEvent) <= 1
    /\ (pc = "done" /\ ctx # NoRecord) =>
        /\ Count(dispatched, IsAfterInvokeEvent) = IF exc = None THEN 1 ELSE 0
        /\ exc = None => Count(dispatched, IsCommandErrorEvent) = 0
        /\ exc \in {"CommandError", "CheckFailure"} =>
            /\ Count(dispatched, IsCommandErrorEvent) = 1
            /\ dispatched[Len(dispatched)] =
                [event |-> "command_error", error |-> exc, original |-> None]
        /\ exc \in {"ValueError", "AttributeError"} =>
            /\ Count(dispatched, IsCommandErrorEvent) = 1
            /\ dispatched[Len(dispatched)] =
                [event |-> "command_error", error |-> "CommandInvokeError",
                 original |-> exc]

C6_Witness ==
    /\ pc = "done" /\ exc = "ValueError" /\ last.kind = "callback"
    /\ Count(dispatched, IsCommandErrorEvent) = 1

\* C7: a cancellation raised while a callback is invoked is discarded:
\* do_invoke returns normally, and neither a command_error event nor the
\* after-invoke event is dispatched.
C7_CancellationDiscarded ==
    (pc = "done" /\ exc = "CancelledError") =>
        /\ escaped = None
        /\ \A i \in 1..Len(dispatched) :
                dispatched[i].event = "before_slash_command_invoke"

C7_Witness ==
    /\ pc = "done" /\ exc = "CancelledError" /\ last.kind = "callback"

\* C8: when an inbound command interaction matches no registered command by
\* id, by name plus guild, or by name alone, the command-not-found error is
\* dispatched as a command_error event and is not raised out of the handler.
C8_NotFoundDispatched ==
    (pc = "done" /\ ctx = NoRecord /\ escaped # "KeyError") =>
        /\ escaped = None
        /\ \E i \in 1..Len(dispatched) :
            /\ dispatched[i].event = "command_error"
            /\ dispatched[i].error = "CommandNotFound"

\* the scopes already fetched and diffed, while no write has been issued yet
Synced == IF rpc \in {"sync", "gather"} /\ writes = {}
          THEN DOMAIN guilds \ pending ELSE {}
RemoteNames(sc) == {r.name : r \in remote[sc]}
RemoteRecord(sc, n) == CHOOSE r \in remote[sc] : r.name = n
Queued(method, sc) ==
    {k[3] : k \in {q \in DOMAIN state : q[1] = method /\ q[2] = sc}}
AdoptedIn(sc) ==
    {n \in DOMAIN guilds[sc] \cap RemoteNames(sc) :
        cmd_id[guilds[sc][n]] = RemoteRecord(sc, n).id}

\* C9: for each synced scope with declared names D and remote names R, a
\* create is queued for exactly D minus R, a delete by remote id for exactly
\* R minus D, and exactly the names of D intersect R are update candidates
\* (updated or adopted); the three sets are pairwise disjoint and cover
\* D union R.
C9_ThreeWayDiff ==
    \A sc \in Synced :
        LET D == DOMAIN guilds[sc]
            R == RemoteNames(sc)
            candidates == Queued("PATCH", sc) \cup AdoptedIn(sc)
        IN /\ Queued("POST", sc) = D \ R
           /\ Queued("DELETE", sc) = R \ D
           /\ \A n \in Queued("DELETE", sc) :
                state[<<"DELETE", sc, n>>].id = RemoteRecord(sc, n).id
           /\ candidates = D \cap R
           /\ Queued("POST", sc) \cap Queued("DELETE", sc) = {}
           /\ Queued("POST", sc) \cap candidates = {}
           /\ Queued("DELETE", sc) \cap candidates = {}
           /\ Queued("POST", sc) \cup Queued("DELETE", sc) \cup candidates
                = D \cup R

C9_Witness ==
    /\ rpc = "gather" /\ writes = {} /\ NoneId \in DOMAIN guilds
    /\ DOMAIN guilds[NoneId] = {"ping"}
    /\ RemoteNames(NoneId) = {"ping", "old"}
    /\ {k \in DOMAIN state : k[2] = NoneId} = {<<"DELETE", NoneId, "old">>}

\* C10: for a name present locally and remotely: if the serialized command
\* equals the remote record on name, description, options and
\* default_permission (an absent field equals only an absent field), the
\* command adopts the remote id and no write is queued; otherwise exactly one
\* write is queued for the name, a PATCH addressed to the remote id whose
\* payload has no name field.
C10_UpdateOrAdopt ==
    \A sc \in Synced :
        \A n \in DOMAIN guilds[sc] \cap RemoteNames(sc) :
            LET o == guilds[sc][n]
                L == ToDict(decl[o])
                r == RemoteRecord(sc, n)
                same == \A f \in CmdFields :
                            /\ (f \in DOMAIN L) <=> (f \in DOMAIN r)
                            /\ (f \in DOMAIN L /\ f \in DOMAIN r) => L[f] = r[f]
                queued == {k \in DOMAIN state : k[2] = sc /\ k[3] = n}
            IN IF same
               THEN cmd_id[o] = r.id /\ queued = {}
               ELSE /\ queued = {<<"PATCH", sc, n>>}
                    /\ state[<<"PATCH", sc, n>>].id = r.id
                    /\ "name" \notin DOMAIN state[<<"PATCH", sc, n>>].json
                    /\ DOMAIN state[<<"PATCH", sc, n>>].json =
                            DOMAIN L \ {"name"}

\* C11: when a call of register_commands has returned with every write
\* succeeded and the next call, with the same guild filter, has returned too,
\* that next call has issued no write at all and every declared command has
\* the id it had when the call started.
C11_Idempotent ==
    \A i \in 1..(Len(runs) - 1) :
        (/\ runs[i].outcome = "returned" /\ runs[i + 1].outcome = "returned"
         /\ \A w \in runs[i].writes : w.ok
         /\ runs[i + 1].guild_id = runs[i].guild_id)
        => /\ runs[i + 1].writes = {}
           /\ (i + 1 = Len(runs) => cmd_id = runs[i + 1].ids)

C10_Witness ==
    /\ rpc = "gather" /\ writes = {}
    /\ \E sc \in Synced : \E n \in DOMAIN guilds[sc] \cap RemoteNames(sc) :
        /\ "default_permission" \notin DOMAIN RemoteRecord(sc, n)
        /\ <<"PATCH", sc, n>> \in DOMAIN state

\* the latest call of register_commands has returned and none of its writes
\* failed
ReturnedAllOk ==
    /\ rpc = "done"
    /\ \A w \in writes : w.ok

\* C12: after register_commands returns from a run in which every write
\* succeeded, every declared command of a synced scope has a non-None id, the
\* API holds a command of that name in that scope under that id, and no other
\* declared command has the same id (the ID lookup of an inbound interaction
\* finds exactly that command).
C12_IdsJoinRemote ==
    ReturnedAllOk =>
        \A sc \in DOMAIN guilds : \A o \in slash :
            cmd_guild_id[o] = sc =>
                /\ cmd_id[o] # NoneId
                /\ \E r \in remote[sc] : r.name = decl[o].name /\ r.id = cmd_id[o]
                /\ {q \in slash : cmd_id[q] = cmd_id[o]} = {o}

WriteKey(w) == <<w.method, w.guild_id, w.name>>
FailedWrites == {w \in writes : ~w.ok}
GetFailed == rpc = "raised" /\ pending # {}

\* C13: a failed write is contained in its own task: every queued write is
\* still issued exactly once and runs to its own outcome (no task is left
\* behind when the call ends), register_commands raises only when fetching a
\* command list failed, and the command of a failed write has the id it had
\* before the call.
C13_FailureContained ==
    /\ rpc = "raised" => GetFailed
    /\ rpc \in {"gather", "done"} =>
        /\ tasks \cup {WriteKey(w) : w \in writes} = DOMAIN state
        /\ tasks \cap {WriteKey(w) : w \in writes} = {}
        /\ \A w, x \in writes : WriteKey(w) = WriteKey(x) => w = x
    /\ rpc = "done" => tasks = {}
    /\ \A w \in FailedWrites :
            state[WriteKey(w)].cmd # <<>> =>
                cmd_id[state[WriteKey(w)].cmd[1]]
                    = runs[Len(runs)].ids[state[WriteKey(w)].cmd[1]]

C13_Witness ==
    /\ rpc = "done"
    /\ Cardinality(FailedWrites) = 1
    /\ Cardinality(writes) >= 3
    /\ \E w \in FailedWrites : w.method = "POST"
    /\ \E w \in writes : w.ok /\ w.method = "POST"

\* C14: in the initial registration pass started by on_ready, a write that
\* fails with an HTTP error is fatal: once on_ready is over, close has been
\* scheduled and the slash_permissions event, which starts the permission
\* pass, has not been dispatched.
C14_InitialWriteFailureFatal ==
    (/\ Len(runs) >= 1 /\ runs[1].caller = "on_ready"
     /\ ready # "running"
     /\ \E w \in runs[1].writes : ~w.ok)
    => ready = "closing"

\* the guild filter of the call of register_commands in progress or last made
RunFilter == runs[Len(runs)].guild_id

\* command o is the one diffed against the API in scope sc
SyncedIn(o, sc) ==
    /\ sc \in DOMAIN guilds
    /\ decl[o].name \in DOMAIN guilds[sc]
    /\ guilds[sc][decl[o].name] = o

\* C18: once register_commands has partitioned the commands: with debug_guild
\* set, every command declared without guild_id belongs to the debug guild
\* and is diffed there (when the guild filter admits that guild), and no
\* create or update is queued for the global scope; a command declared with
\* a guild_id keeps it; with debug_guild unset, a command declared without
\* guild_id is diffed in the global scope (when the call has no filter).
C18_DebugGuildRedirect ==
    rpc \in {"sync", "gather", "done"} =>
        /\ \A o \in slash :
            IF o[2] # NoneId THEN cmd_guild_id[o] = o[2]
            ELSE IF debug_guild # NoneId
            THEN /\ cmd_guild_id[o] = debug_guild
                 /\ RunFilter \in {NoneId, debug_guild} => SyncedIn(o, debug_guild)
            ELSE /\ cmd_guild_id[o] = NoneId
                 /\ RunFilter = NoneId => SyncedIn(o, NoneId)
        /\ debug_guild # NoneId =>
            \A k \in DOMAIN state : k[1] \in {"POST", "PATCH"} => k[2] # NoneId

\* the grants of command o in one scope
Grants(o, g) == Get(permissions[o], g)

\* C16: perms_dict(guild_id) returns one entry for every key (principal id,
\* principal type) granted in the default scope or in guild_id, and no other;
\* a key granted in guild_id carries the guild's value, whether or not the
\* default scope grants it too, and a key granted only in the default scope
\* carries the default value.
C16_GuildGrantsOverrideDefaults ==
    \A o \in slash : \A g \in PermScopes :
        LET D == Grants(o, NoneId)
            S == Grants(o, g)
            out == PermsDict(o, g).permissions
        IN /\ {<<e.id, e.type>> : e \in out} = DOMAIN D \cup DOMAIN S
           /\ \A e, f \in out : (e.id = f.id /\ e.type = f.type) => e = f
           /\ \A e \in out :
                e.permission = IF <<e.id, e.type>> \in DOMAIN S
                               THEN S[<<e.id, e.type>>]
                               ELSE D[<<e.id, e.type>>]
           /\ PermsDict(o, g).id = cmd_id[o]

C16_Witness ==
    \E o \in slash :
        /\ <<7, ROLE>> \in DOMAIN Grants(o, NoneId) \cap DOMAIN Grants(o, 2)
        /\ Grants(o, NoneId)[<<7, ROLE>>] # Grants(o, 2)[<<7, ROLE>>]
        /\ <<7, USER>> \in DOMAIN Grants(o, NoneId) \ DOMAIN Grants(o, 2)
        /\ nperm = 3

\* the list of grants in which the guild's value wins over the default's
MergedGrants(D, S) ==
    {[id |-> k[1], type |-> k[2],
      permission |-> IF k \in DOMAIN S THEN S[k] ELSE D[k]] :
        k \in DOMAIN D \cup DOMAIN S}

\* the guilds the bot knows: those it is in and those commands are limited to
KnownGuilds == (bot_guilds \cup {cmd_guild_id[o] : o \in slash}) \ {NoneId}

\* the entries of command o in the payload built for guild g
EntriesOf(o, g) ==
    IF g \in DOMAIN perm_guilds THEN {e \in perm_guilds[g] : e.cmd = o} ELSE {}

\* C15: in a permission pass without guild filter, the payload of a guild
\* holds, for a command with grants specific to that guild, one entry with
\* the merged grants; for a command without grants specific to it but with
\* default grants, one entry with exactly the default grants if the guild is
\* relevant to the command (any known guild for a global command, its own
\* guild otherwise) and no entry if not; the None scope is never a guild of
\* the payload nor of a PUT, and each PUT carries the payload of its guild.
C15_DefaultsFillGaps ==
    (ppc # "idle" /\ perm_filter = NoneId) =>
        /\ NoneId \notin DOMAIN perm_guilds
        /\ \A i \in 1..Len(puts) :
            /\ puts[i].guild_id # NoneId
            /\ puts[i].json = perm_guilds[puts[i].guild_id]
        /\ \A o \in slash : \A g \in PermGuildIds :
            LET D == Grants(o, NoneId)
                relevant == IF cmd_guild_id[o] = NoneId THEN KnownGuilds
                            ELSE {cmd_guild_id[o]}
            IN IF g \in DOMAIN permissions[o]
               THEN EntriesOf(o, g) =
                        {[cmd |-> o, id |-> cmd_id[o],
                          permissions |-> MergedGrants(D, Grants(o, g))]}
               ELSE IF DOMAIN D # {} /\ g \in relevant
               THEN EntriesOf(o, g) =
                        {[cmd |-> o, id |-> cmd_id[o],
                          permissions |-> MergedGrants(D, <<>>)]}
               ELSE EntriesOf(o, g) = {}

C15_Witness ==
    /\ ppc = "returned" /\ perm_filter = NoneId /\ Len(puts) = 2
    /\ bot_guilds = PermGuildIds
    /\ \E o, q \in slash :
        /\ cmd_guild_id[o] = NoneId /\ cmd_guild_id[q] = 1
        /\ DOMAIN Grants(o, NoneId) # {} /\ 1 \in DOMAIN permissions[o]
        /\ 2 \notin DOMAIN permissions[o]
        /\ DOMAIN Grants(q, NoneId) # {} /\ DOMAIN permissions[q] = {NoneId}
        /\ EntriesOf(o, 2) # {} /\ EntriesOf(q, 1) # {} /\ EntriesOf(q, 2) = {}

\* C17: a PUT of the permission pass that fails is fatal: close() has been
\* scheduled and register_permissions has raised; it never returns normally
\* after a failed PUT, and close() is scheduled for no other reason.
C17_PermissionFailureFatal ==
    /\ (\E i \in 1..Len(puts) : ~puts[i].ok) => (closing /\ ppc = "raised")
    /\ ppc = "returned" => \A i \in 1..Len(puts) : puts[i].ok
    /\ closing => ppc = "raised"

C17_Witness ==
    /\ ppc = "raised" /\ closing
    /\ Len(puts) = 2 /\ puts[1].ok /\ ~puts[2].ok

\* callback c was registered exactly once
RegisteredOnce(c) ==
    Cardinality({i \in 1..Len(reg_order) : reg_order[i].cb = c}) = 1

\* the place of callback c in the order of registration
RegIndex(c) ==
    CHOOSE i \in 1..Len(reg_order) : reg_order[i].cb = c

\* C19: in a component dispatch the matchers are awaited in the order of
\* registration (stated for callbacks registered once, whose place in that
\* order is unambiguous), none registered earlier being passed over; no
\* matcher is awaited after one returned a truthy value; the callback handed
\* to do_invoke is the one whose matcher returned truthy; when no matcher is
\* truthy, every callback of the registry has been tested, CommandNotFound
\* is raised and no callback is invoked.
C19_FirstRegisteredMatch ==
    /\ \A i, j \in 1..Len(tested) :
            (/\ i < j
             /\ RegisteredOnce(tested[i].cb)
             /\ RegisteredOnce(tested[j].cb))
                => RegIndex(tested[i].cb) < RegIndex(tested[j].cb)
    /\ cpc = "matching" =>
            \A j \in 1..Len(tested) : \A c \in comp_callbacks :
                (/\ RegisteredOnce(c)
                 /\ RegisteredOnce(tested[j].cb)
                 /\ RegIndex(c) < RegIndex(tested[j].cb))
                    => \E i \in 1..(j - 1) : tested[i].cb = c
    /\ \A i \in 1..(Len(tested) - 1) : ~Truthy(tested[i].result)
    /\ cpc = "do_invoke" =>
            /\ tested # <<>>
            /\ command = tested[Len(tested)].cb
            /\ Truthy(tested[Len(tested)].result)
    /\ cescaped = "CommandNotFound" =>
            /\ \A i \in 1..Len(tested) : ~Truthy(tested[i].result)
            /\ Len(tested) = iter.used
            /\ dispatched = <<>>

\* C20: a registration puts the callback in the registry at once and creates
\* its wait_and_deregister task without running it; a callback leaves the
\* registry only by hand or when a task with a ttl that was asleep ends; a
\* task with ttl None ends without touching the registry; and a callback for
\* which a task with a ttl exists is eventually out of the registry.
C20_TtlDeregisters ==
    /\ [][reg_order' # reg_order =>
            LET r == reg_order'[Len(reg_order')] IN
            /\ r.cb \in comp_callbacks'
            /\ \E t \in timers' \ timers :
                    t.cb = r.cb /\ t.ttl = r.ttl /\ t.stage = "created"
          ]_vars
    /\ [][\A c \in comp_callbacks \ comp_callbacks' :
            \/ timers' = timers
            \/ \E t \in timers \ timers' :
                    t.cb = c /\ t.ttl # None /\ t.stage = "sleeping"
          ]_vars
    /\ [][(\E t \in timers \ timers' : t.ttl = None) =>
                comp_callbacks' = comp_callbacks
          ]_vars
    /\ \A c \in Callbacks :
            (\E t \in timers : t.cb = c /\ t.ttl # None) ~> (c \notin comp_callbacks)

C20_Witness ==
    /\ reg_order = <<[cb |-> "cbA", ttl |-> "900"], [cb |-> "cbB", ttl |-> None]>>
    /\ timers = {}
    /\ comp_callbacks = {"cbB"}

\* a step in which a respond() call runs to its return or raise
RespondReturns == call # NoRecord /\ call' = NoRecord

\* arguments that _message_data accepts: not both embed and embeds, not
\* both file and files
Acceptable(a) == ~(a.embed /\ a.embeds) /\ ~(a.file /\ a.files)

DeferredType(kind) ==
    IF kind = "slash" THEN DEFERRED_CHANNEL_MESSAGE_WITH_SOURCE
    ELSE DEFERRED_UPDATE_MESSAGE

\* C21: a respond(deferred=True) made while the context is unresponded
\* issues the POST of the callback with the deferred (acknowledgment-only)
\* response type, whatever rtype and the message arguments are, and leaves
\* the context responded; a respond() made while the context is responded
\* and that passes validation issues a PATCH.
C21_DeferredAcknowledges ==
    /\ [][(/\ RespondReturns
            /\ webhook = None
            /\ call.args.deferred
            /\ Acceptable(call.args)) =>
                /\ requests' = Append(requests, "POST")
                /\ payload'.type = DeferredType(ctx.kind)
                /\ webhook' # None
          ]_vars
    /\ [][(/\ RespondReturns
            /\ webhook # None
            /\ Acceptable(call.args)) =>
                /\ requests' = Append(requests, "PATCH")
                /\ webhook' = webhook
          ]_vars

\* the call carries no content, no embeds and no files
Contentless(a) ==
    a.content = "" /\ ~a.embed /\ ~a.embeds /\ ~a.file /\ ~a.files

\* the response type of the call is the channel-message type: asked for, or
\* the default of a slash-command context
AsksChannelMessage(a, kind) ==
    /\ ~a.deferred
    /\ \/ a.rtype = CHANNEL_MESSAGE_WITH_SOURCE
       \/ a.rtype = NoneId /\ kind = "slash"

\* C22: an initial respond() without content, embeds and files whose
\* response type is the channel-message type raises ValueError to its
\* caller, issues no request and leaves the context unresponded; the same
\* call with deferred=True raises nothing (a failure of the request itself
\* apart).
C22_ContentlessRejected ==
    [][(RespondReturns /\ webhook = None /\ Contentless(call.args)) =>
            /\ AsksChannelMessage(call.args, ctx.kind) =>
                    /\ raised' = "ValueError"
                    /\ requests' = requests
                    /\ webhook' = None
            /\ call.args.deferred => raised' \in {None, "HTTPException"}
      ]_vars

\* the keys of the message that the arguments of a call supply
Supplied(a) ==
    (IF a.content # "" THEN {"content"} ELSE {})
    \cup (IF a.embed \/ a.embeds THEN {"embeds"} ELSE {})
    \cup (IF a.components THEN {"components"} ELSE {})
    \cup (IF a.file \/ a.files THEN {"attachments"} ELSE {})

\* C23: an initial channel-message respond() that supplies at least one of
\* content, embeds, components and files raises no validation error, and
\* the payload of its request carries everything that was supplied.
C23_AnyPartAccepted ==
    [][(/\ RespondReturns
        /\ webhook = None
        /\ Acceptable(call.args)
        /\ AsksChannelMessage(call.args, ctx.kind)
        /\ Supplied(call.args) # {}) =>
            /\ raised' \notin ValidationErrors
            /\ requests' # requests => Supplied(call.args) \subseteq payload'.keys
      ]_vars

\* a step that is a whole delete() or a whole send() call
DeleteOrSendStep ==
    /\ call = NoRecord /\ call' = NoRecord
    /\ <<webhook, requests, payload, raised>>' # <<webhook, requests, payload, raised>>

\* C24: delete() and send() leave the response state (self.webhook) as it
\* was; a request of send() goes to the channel's own route, not to a route
\* of the interaction token; and in the responded state, also after a
\* delete(), a respond() that issues a request issues a PATCH.
C24_DeleteSendKeepState ==
    /\ [][DeleteOrSendStep =>
            /\ webhook' = webhook
            /\ requests' # requests =>
                    requests' \in {Append(requests, "DELETE"),
                                   Append(requests, "POST /channels")}
          ]_vars
    /\ [][(/\ RespondReturns
            /\ requests # <<>>
            /\ requests[Len(requests)] = "DELETE"
            /\ webhook # None
            /\ requests' # requests) =>
                requests' = Append(requests, "PATCH")
          ]_vars

\* a response was sent, then deleted, and the next respond() was an edit
C24_Witness ==
    /\ Len(requests) = 3
    /\ requests[1] = "POST" /\ requests[2] = "DELETE" /\ requests[3] = "PATCH"
    /\ webhook # None

\* C25: the resolution of a USER, CHANNEL, ROLE or MENTIONABLE option never
\* raises: whatever the policy flags, the caches, the outcome of a fetch and
\* the sections of the resolved payload are, its result is a full entity, a
\* partial entity or the bare placeholder.
C25_ResolutionNeverRaises ==
    rpos = "done" => value.kind \in {"full", "partial", "Object"}

\* the cache lookups of the resolution that found the entity
CacheHits ==
    {i \in 1..Len(rlog) :
        /\ rlog[i].op = "get"
        /\ rin.guild = "Guild"
        /\ rin.cache[rlog[i].of] = "hit"}

\* C26: when a cache lookup of the resolution hits, the cached entity is the
\* result, whatever fetch_if_not_get is.
C26_CacheHitIsResult ==
    \A i \in CacheHits : value = Entity("full", rlog[i].of, "cache")

\* C27: with resolve_not_fetch true no cache lookup and no fetch is made
\* for an entity whose ID is in the matching section of the resolved
\* payload, and an attempt that finds the ID there returns the entity built
\* from the payload; in every resolution a fetch is made at most once, right
\* after a cache lookup of the same entity that missed, and only with
\* fetch_if_not_get true.
FirstSection ==
    IF rin.opttype \in {"USER", "MENTIONABLE"} THEN "member"
    ELSE IF rin.opttype = "CHANNEL" THEN "channel" ELSE "role"

MatchesNeither ==
    /\ "member" \notin rin.resolved /\ "role" \notin rin.resolved
    /\ rin.guild = "Guild" =>
            rin.cache["member"] = "miss" /\ rin.cache["role"] = "miss"
    /\ rin.fetch["member"] = "HTTPException"

\* C28: a MENTIONABLE value is resolved as a member first, and as a role
\* exactly when the member attempt returned the bare placeholder; when the
\* ID matches neither a member nor a role the result is the bare
\* placeholder and nothing is raised.
C28_MentionableMemberThenRole ==
    /\ [][(rin.opttype = "MENTIONABLE" /\ rpos = "idle" /\ rpos' # "idle") =>
            /\ \A i \in 1..Len(rlog') : rlog'[i].of = "member"
            /\ (rpos' = "role") <=> (value' = Default)
            /\ (rpos' = "done") <=> (value' # Default)
          ]_vars
    /\ [][(rpos = "role" /\ rpos' # "role") =>
            /\ rpos' = "done"
            /\ \A i \in (Len(rlog) + 1)..Len(rlog') : rlog'[i].of = "role"
            /\ value'.kind # "raised"
          ]_vars
    /\ [](rin # NoRecord =>
            ((rin.opttype = "MENTIONABLE" /\ rpos = "done" /\ MatchesNeither)
                => value = Default))

C28_Witness ==
    /\ rin.opttype = "MENTIONABLE" /\ rpos = "done" /\ MatchesNeither
    /\ rin.guild = "Guild"
    /\ rlog = <<[op |-> "get", of |-> "member"], [op |-> "fetch", of |-> "member"],
                [op |-> "get", of |-> "role"]>>
    /\ value = Default

\* no command was looked up, no context built, no matcher or callback
\* awaited and no event dispatched
NothingHandled ==
    /\ pc = "done" /\ ctx = NoRecord /\ trace = <<>> /\ last = NoRecord
    /\ dispatched = <<>>
    /\ cpc = "idle" /\ tested = <<>> /\ command = None

\* C29: an event whose version is not 1 makes the listener raise
\* RuntimeError before any lookup, context or callback; an event of version
\* 1 whose type is neither APPLICATION_COMMAND nor MESSAGE_COMPONENT is
\* ignored: nothing is looked up, called or dispatched and nothing is raised.
C29_VersionGateAndIgnoredTypes ==
    gateway # NoRecord =>
        /\ gateway.version # 1 =>
                escaped = "RuntimeError" /\ NothingHandled
        /\ (/\ gateway.version = 1
            /\ gateway.type \notin {APPLICATION_COMMAND, MESSAGE_COMPONENT}) =>
                escaped = None /\ cescaped = None /\ NothingHandled

C29_Witness ==
    /\ gateway # NoRecord
    /\ gateway.version = 2 /\ gateway.type = APPLICATION_COMMAND
    /\ escaped = "RuntimeError"

\* an Option with a str description, without channel_types and without an
\* explicit type, that is given at least one bound, has been constructed
BoundsOnly ==
    /\ option # NoRecord
    /\ opt_args.description = "str" /\ ~opt_args.channel_types
    /\ opt_args.type = "STRING"
    /\ opt_args.max_value # NoRecord \/ opt_args.min_value # NoRecord

SuppliedBounds == {opt_args.max_value, opt_args.min_value} \ {NoRecord}

\* C30, as stated: the inferred type is INTEGER if and only if every
\* supplied bound is an int, and NUMBER otherwise.
C30_IntegerIffAllIntegral ==
    BoundsOnly =>
        IF \A x \in SuppliedBounds : x.t = "int"
        THEN option.type = "INTEGER"
        ELSE option.type = "NUMBER"

\* the bound that decides the type: max_value when it is given, else
\* min_value
Deciding ==
    IF opt_args.max_value # NoRecord THEN opt_args.max_value
    ELSE opt_args.min_value

\* C30, amended: the inferred type is INTEGER if and only if the deciding
\* bound (max_value when given, else min_value) is an int, and NUMBER
\* otherwise; max_value is kept as given and a min_value given with
\* max_value is cast to the inferred type, so that with an int max_value a
\* float min_value is truncated.
C30_TypeFromMaxValue ==
    BoundsOnly =>
        /\ option.type = (IF Deciding.t = "int" THEN "INTEGER" ELSE "NUMBER")
        /\ option.max_value = opt_args.max_value
        /\ opt_args.min_value # NoRecord =>
                /\ option.min_value.t = Deciding.t
                /\ option.min_value.t = opt_args.min_value.t =>
                        option.min_value = opt_args.min_value
                /\ Deciding.t = "float" =>
                        option.min_value.h = opt_args.min_value.h
                /\ Deciding.t = "int" =>
                        /\ option.min_value.h % 2 = 0
                        /\ IF opt_args.min_value.h >= 0
                           THEN /\ option.min_value.h <= opt_args.min_value.h
                                /\ opt_args.min_value.h < option.min_value.h + 2
                           ELSE /\ option.min_value.h >= opt_args.min_value.h
                                /\ opt_args.min_value.h > option.min_value.h - 2

\* max_value=2 with min_value=0.5: the type is INTEGER and min_value is 0
C30_Witness ==
    /\ BoundsOnly
    /\ opt_args.max_value = Num("int", 4) /\ opt_args.min_value = Num("float", 1)
    /\ option.type = "INTEGER" /\ option.min_value = Num("int", 0)

\* the register_commands call made by on_ready
StartupRun == runs[Len(runs)]
RegistrationInFlight == rpc \in {"sync", "gather"} \/ tasks # {}

\* C31: the permission pass starts only after on_ready's register_commands
\* has returned; register_commands returns only when every queued write
\* task has made its request and ended, successfully or not; no permission
\* PUT is issued while a registration write is still in flight.
C31_PermissionsAfterRegistration ==
    /\ (ppc # "idle" \/ puts # <<>>) =>
            /\ runs # <<>> /\ StartupRun.outcome = "returned"
            /\ ~RegistrationInFlight
    /\ rpc = "done" =>
            /\ tasks = {}
            /\ {WriteKey(w) : w \in writes} = DOMAIN state

\* a PUT has been issued after a registration pass in which a write failed
C31_Witness ==
    /\ puts # <<>>
    /\ rpc = "done" /\ FailedWrites # {} /\ Cardinality(writes) >= 2

\* the number of entries that one pass appends for command o to the list
\* of guild gid
Appended(o, gid, filter) ==
    (IF DefaultsGoTo(o, gid, filter) THEN 1 ELSE 0)
    + (IF SpecificGoTo(o, gid, filter) THEN 1 ELSE 0)

\* C32: one permission pass issues at most one PUT per guild; in a guild's
\* payload every command appears at most once, a command with default
\* grants and grants of that guild contributing one merged entry; with a
\* guild filter G no PUT is issued for another guild than G.
C32_OnePutPerGuild ==
    /\ \A i, j \in DOMAIN puts : puts[i].guild_id = puts[j].guild_id => i = j
    /\ \A i \in DOMAIN puts :
        /\ \A e, f \in puts[i].json : e.cmd = f.cmd => e = f
        /\ \A o \in slash : Appended(o, puts[i].guild_id, perm_filter) <= 1
        /\ \A e \in puts[i].json :
                (NoneId \in DOMAIN permissions[e.cmd]
                 /\ puts[i].guild_id \in DOMAIN permissions[e.cmd]) =>
                    e = PermsDict(e.cmd, puts[i].guild_id)
        /\ perm_filter # NoneId => puts[i].guild_id = perm_filter

\* a pass filtered to guild 1 has sent the merged entry of a command that
\* has default grants, grants of guild 1 and grants of guild 2
C32_Witness ==
    /\ perm_filter = 1 /\ ppc = "returned" /\ Len(puts) = 1
    /\ \E o \in slash :
        /\ {NoneId, 1, 2} \subseteq DOMAIN permissions[o]
        /\ PermsDict(o, 1) \in puts[1].json

\* the searches of handle_slash_command, as the claim words them
ById == {o \in slash : cmd_id[o] # NoneId /\ cmd_id[o] = event.id}
ByNameAndGuild ==
    {o \in slash : decl[o].name = event.name /\ cmd_guild_id[o] = event.guild_id}
ByName == {o \in slash : decl[o].name = event.name}

\* C33: handle_slash_command selects a command whose id equals the event's
\* command id whenever there is one, whatever its name; otherwise a command
\* with the event's name and guild scope; otherwise a command with the
\* event's name; a command whose id is None is never selected by id.
C33_LocateByIdThenName ==
    built # NoRecord =>
        IF ById # {} THEN built.located # {} /\ built.located \subseteq ById
        ELSE IF ByNameAndGuild # {}
        THEN built.located # {} /\ built.located \subseteq ByNameAndGuild
        ELSE IF ByName # {}
        THEN built.located # {} /\ built.located \subseteq ByName
        ELSE built.located = {}

\* what the claim says ctx.options holds: the context under the context
\* parameter, each supplied value under the parameter of its option
ExpectedOptions(top, path) ==
    LET opts == CommandOptions(top, path)
        param(n) == CHOOSE k \in DOMAIN opts : opts[k] = n
        given == {event.supplied[i].name : i \in 1..Len(event.supplied)}
        valueOf(n) == (CHOOSE i \in 1..Len(event.supplied) :
                            event.supplied[i].name = n)
    IN [k \in {CtxArg} \cup {param(n) : n \in given} |->
            IF k = CtxArg THEN "self"
            ELSE event.supplied[valueOf(opts[k])].value]

\* the event targets a node of the tree below top: every name of its path
\* is a subcommand of the group reached before it
TargetsNode(top, path) ==
    \A i \in 1..Len(path) : path[i] \in Children(top, SubSeq(path, 1, i - 1))

\* C34: after a Context has been constructed from an event that targets a
\* command or a group of the tree, ctx.command is a leaf command (it has no
\* subcommand mapping), the one reached from the located top-level command
\* by the event's nested option names, and ctx.options maps the context
\* parameter to the context and every supplied option's parameter name to
\* its value.
C34_LeafAndOptions ==
    (built # NoRecord /\ built.raised = None) =>
        \E o \in built.located :
            /\ TargetsNode(o, event.path)
                => /\ ~IsGroup(o, built.command)
                   /\ built.command = event.path
                   /\ built.options = ExpectedOptions(o, built.command)

\* a Context for the subcommand two groups deep, with both options supplied
C34_Witness ==
    /\ built # NoRecord /\ built.raised = None
    /\ \A o \in built.located : TargetsNode(o, event.path)
    /\ Len(built.command) = MaxDepth
    /\ DOMAIN built.options = {"ctx", "a", "b"}
    /\ built.options["a"] = "v1" /\ built.options["b"] = "v2"

\* the effective scope of a declared command: the guild_id it was declared
\* with, else the debug guild, else None
EffectiveScope(o) == IF o[2] # NoneId THEN o[2] ELSE debug_guild
EffectiveScopes == {EffectiveScope(o) : o \in slash}

\* C35: register_commands() without guild filter fetches and diffs exactly
\* the guilds the bot is a member of, the guilds that are the effective
\* scope of a declared command, and the global scope if and only if some
\* declared command has effective scope None; so with no global command
\* declared nothing is written to the global scope, and in a member guild
\* without declarations every remote command is queued for deletion.
C35_ScopesSynced ==
    (runs # <<>> /\ RunFilter = NoneId) =>
        /\ DOMAIN guilds = bot_guilds \cup EffectiveScopes
        /\ NoneId \in DOMAIN guilds <=> NoneId \in EffectiveScopes
        /\ NoneId \notin EffectiveScopes =>
                /\ \A k \in DOMAIN state : k[2] # NoneId
                /\ \A w \in writes : w.guild_id # NoneId
        /\ \A g \in bot_guilds \ EffectiveScopes :
                /\ g \in Synced => Queued("DELETE", g) = RemoteNames(g)
                /\ (rpc = "done" /\ \A w \in writes : w.ok) => remote[g] = {}

\* no command is declared; the run has emptied member guild 1 and left the
\* global command of the API alone
C35_Witness ==
    /\ runs # <<>> /\ RunFilter = NoneId /\ rpc = "done"
    /\ slash = {} /\ bot_guilds = {1}
    /\ \E w \in writes : w.method = "DELETE" /\ w.guild_id = 1 /\ w.ok
    /\ remote[1] = {} /\ remote[NoneId] # {}

\* the scopes whose command list has been fetched and diffed in this run
FetchedScopes == DOMAIN guilds \ pending

\* C36: within one register_commands run no create, update or delete is
\* issued before the command lists of all scopes have been fetched and
\* diffed; when a list fetch raises, register_commands raises with no write
\* issued and no task created, and the ids adopted from up-to-date remote
\* records of the scopes fetched before stay set.
C36_FetchAllBeforeWriting ==
    /\ (writes # {} \/ tasks # {}) => pending = {}
    /\ rpc = "raised" =>
        /\ writes = {} /\ tasks = {}
        /\ runs[Len(runs)].outcome = "raised"
        /\ \A sc \in FetchedScopes :
            \A n \in DOMAIN guilds[sc] \cap RemoteNames(sc) :
                UpToDate(RemoteRecord(sc, n), ToDict(decl[guilds[sc][n]])) =>
                    cmd_id[guilds[sc][n]] = RemoteRecord(sc, n).id

\* the fetch of the second scope raised after the first scope had queued a
\* write and adopted an id
C36_Witness ==
    /\ rpc = "raised" /\ pending # {} /\ FetchedScopes # {}
    /\ DOMAIN state # {}
    /\ \E o \in slash : cmd_id[o] # NoneId

\* the queued write whose task assigns the id of command o
TasksFor(o) == {k \in DOMAIN state : state[k].cmd = <<o>>}

\* C37: within one register_commands run each pair of scope and command
\* name is the subject of at most one write and each declared command is
\* the target of at most one write task; so whatever the order in which the
\* tasks end, a command whose write succeeded has the id of the remote
\* record of its name in its scope, and a command whose write failed keeps
\* the id it had.
C37_OneWritePerCommand ==
    /\ \A k, q \in DOMAIN state : (k[2] = q[2] /\ k[3] = q[3]) => k = q
    /\ \A w, v \in writes :
            (w.guild_id = v.guild_id /\ w.name = v.name) => w = v
    /\ \A o \in slash : Cardinality(TasksFor(o)) <= 1
    /\ rpc = "done" =>
        \A o \in slash : \A k \in TasksFor(o) :
            \E w \in writes :
                /\ WriteKey(w) = k
                /\ IF w.ok
                   THEN /\ k[3] \in RemoteNames(k[2])
                        /\ cmd_id[o] = RemoteRecord(k[2], k[3]).id
                   ELSE cmd_id[o] = runs[Len(runs)].ids[o]

\* two tasks that each assign an id have ended
C37_Witness ==
    /\ rpc = "done"
    /\ Cardinality({o \in slash : \E k \in TasksFor(o) :
                        \E w \in writes : WriteKey(w) = k /\ w.ok}) = 2
    /\ \E w \in writes : w.method = "POST"
    /\ \E w \in writes : w.method = "PATCH"

\* C38: every command entry of a permission PUT payload carries a command
\* id that is not None, after every outcome of the registration pass that
\* precedes the permission pass.
C38_PermissionEntriesHaveIds ==
    \A i \in DOMAIN puts : \A e \in puts[i].json : e.id # NoneId

OnReadyRuns == {i \in DOMAIN runs : runs[i].caller = "on_ready"}

\* C40: the initial registration pass runs at most once per bot instance: the
\* first 'ready' event removes the listener before registering, and a later
\* 'ready' event starts neither register_commands nor the permission pass,
\* whatever the outcome of the first pass.
C40_InitialPassOnce ==
    [][/\ Cardinality(OnReadyRuns') <= 1
       /\ (ready_events' # ready_events) => ~listening'
       /\ (ready_events >= 1 /\ ready_events' # ready_events)
            => UNCHANGED <<ready, rpc, runs, ppc, puts, writes, tasks>>
      ]_vars

\* a second 'ready' event has been dispatched and on_ready's one pass has ended
\* with a failed write
C40_Witness ==
    /\ ready_events = 2
    /\ ready \in {"permissions", "closing"}
    /\ Cardinality(OnReadyRuns) = 1
    /\ FailedWrites # {}

====
